---------------------------- MODULE Spec2Model ----------------------------
(***************************************************************************)
(* Content-audit scoring engine of vamsi-op/content-enhancer.              *)
(*                                                                         *)
(* The five analyzers (SEO, SERP, AEO, Humanization, Differentiation) are  *)
(* stateless objects whose analyze() method walks through a fixed list of  *)
(* checks, deducting from a running score and appending to issues and      *)
(* recommendations.  Each check is one action of the model; the locals of   *)
(* analyze() (score, issues, recommendations, details) are its variables.  *)
(*                                                                         *)
(* A text is seen by the analyzers only through len(text.split()), regex   *)
(* match counts and substring tests.  The model draws the value of each    *)
(* such measurement when the code takes it (a measurement that the code    *)
(* takes twice is stored and reused) and applies the code's thresholds     *)
(* and arithmetic to it.  Floating-point comparisons are written with the  *)
(* equivalent integer cross-multiplications.  Message texts are the        *)
(* code's format strings with the interpolated numbers left out.           *)
(***************************************************************************)
EXTENDS Integers, Sequences, FiniteSets, TLC

VARIABLES
    pc,               \* position of the running call ("idle" between calls)
    call,             \* arguments of the running call, as far as read
    score,            \* analyze(): score
    issues,           \* analyze(): issues
    recommendations,  \* analyze(): recommendations
    details,          \* analyze(): details (the keys the model follows)
    report,           \* the value analyze() returned, NoReport before that
    net,              \* scraper calls made by the running call
    response          \* the HTTP response of /api/analyze, NoResponse before that

vars == <<pc, call, score, issues, recommendations, details, report, net,
          response>>

\* Python's None and {}
None == [none |-> TRUE]
EmptyDict == <<>>

NoReport == [score |-> -1, issues |-> <<>>, recommendations |-> <<>>,
             details |-> EmptyDict]
NoNet == [search |-> 0, fetch |-> 0]

\* no HTTP response of /api/analyze yet
NoResponse == [status |-> 0]

---------------------------------------------------------------------------
(* Helpers *)

Max(a, b) == IF a >= b THEN a ELSE b
Min(a, b) == IF a <= b THEN a ELSE b

\* Python's seq[:n] for n >= 0
Take(s, n) == SubSeq(s, 1, Min(n, Len(s)))

\* d with key k set to v (Python: d[k] = v)
Put(d, k, v) == (k :> v) @@ d

Has(d, k) == k \in DOMAIN d

\* The frame of locals of a running analyze()
Frame == [score |-> score, issues |-> issues,
          recommendations |-> recommendations, details |-> details]

NewFrame == [score |-> 100, issues |-> <<>>, recommendations |-> <<>>,
             details |-> EmptyDict]

\* a deduction that puts its issue at the head of the list
DeductAtHead(f, n, i, r) ==
    [f EXCEPT !.score = @ - n,
              !.issues = <<i>> \o @,
              !.recommendations = Append(@, r)]

\* score -= n; issues.append(i); recommendations.append(r)
Deduct(f, n, i, r) ==
    [f EXCEPT !.score = @ - n,
              !.issues = Append(@, i),
              !.recommendations = Append(@, r)]

\* score -= n; issues.append(i)
DeductNoRec(f, n, i) ==
    [f EXCEPT !.score = @ - n, !.issues = Append(@, i)]

Good(f, point) ==
    [f EXCEPT !.details =
        Put(@, "good_points",
            Append(IF Has(@, "good_points") THEN @["good_points"] ELSE <<>>,
                   point))]

SetFrame(f) ==
    /\ score' = f.score
    /\ issues' = f.issues
    /\ recommendations' = f.recommendations
    /\ details' = f.details

\* the return without max(0, score)
Top3(f) ==
    [score |-> f.score, issues |-> f.issues,
     recommendations |-> Take(f.recommendations, 3), details |-> f.details]

\* the return with recommendations[-3:]
FlooredLast3(f) ==
    [score |-> Max(0, f.score), issues |-> f.issues,
     recommendations |->
        SubSeq(f.recommendations, Max(1, Len(f.recommendations) - 2),
               Len(f.recommendations)),
     details |-> f.details]

\* return {'score': max(0, score), ..., 'recommendations': recommendations[:3]}
FlooredTop3(f) ==
    [score |-> Max(0, f.score), issues |-> f.issues,
     recommendations |-> Take(f.recommendations, 3), details |-> f.details]

---------------------------------------------------------------------------
(* Inputs *)

\* len(text.split()) of the sample texts
WordCounts == {0, 250, 450, 700, 1600, 2100, 2400, 3100}

\* target_keyword values; "" is "no keyword"
Keywords == {"", "laptop", "seo tips"}

\* len(keyword.split())
KeywordWords(k) == IF k = "seo tips" THEN 2 ELSE IF k = "" THEN 0 ELSE 1

\* str.lower() on the sample phrases, keywords and header texts
Lower(phrase) ==
    CASE phrase = "In my experience" -> "in my experience"
      [] phrase = "Student" -> "student"
      [] phrase = "Best Laptop Picks" -> "best laptop picks"
      [] phrase = "Overview" -> "overview"
      [] OTHER -> phrase

\* a in b on the lowered samples
IsSubstring(a, b) == a = "" \/ a = b \/ (a = "laptop" /\ b = "best laptop picks")

\* header texts, and the keyword matched against the text as written
HeaderTexts == {"Best Laptop Picks", "Overview"}
KeywordInTextAsWritten(k, t) == IsSubstring(k, t)

\* keyword_lower in h['text'].lower()
KeywordInText(k, t) == IsSubstring(Lower(k), Lower(t))


\* headers as the callers build them: a dict {'level', 'text'} per header
\* (TextExtractor._extract_from_url, grouped by level) or a bare string
\* (the URL branch of /api/analyze)
Dict(level, t) == [kind |-> "dict", level |-> level, text |-> t]
Str(t) == [kind |-> "str", level |-> "", text |-> t]

Rep(n, x) == [i \in 1..n |-> x]

\* n1 h1 headers, then n2 h2 headers, then n3 h3 headers; the first header
\* carries the keyword when kw
MkHeaders(n1, n2, n3, kw) ==
    LET hs == Rep(n1, Dict("h1", "Overview")) \o Rep(n2, Dict("h2", "Overview"))
                \o Rep(n3, Dict("h3", "Overview"))
    IN  IF kw /\ Len(hs) > 0
        THEN [hs EXCEPT ![1] = [@ EXCEPT !.text = "Best Laptop Picks"]]
        ELSE hs

MkStrings(n, kw) ==
    LET hs == Rep(n, Str("Overview"))
    IN  IF kw /\ n > 0 THEN [hs EXCEPT ![1] = Str("Best Laptop Picks")] ELSE hs

---------------------------------------------------------------------------
(* SEOAnalyzer *)

\* text_lower.count(keyword_lower) of the sample texts
KeywordCounts == {0, 5, 40}

\* textstat.flesch_reading_ease(text) of the sample texts (0 when textstat
\* raises)
FleschScores == {0, 25, 40, 75}

\* len(meta_description) of the sample descriptions
MetaLengths == {0, 80, 140, 200}

SEOHeaderInputs ==
    {MkHeaders(a, b, c, k) : a \in 0..1, b \in 0..1, c \in 0..1, k \in BOOLEAN}
    \cup {MkStrings(n, k) : n \in 1..2, k \in BOOLEAN}

\* step 0 without the tier below 300 words
SEO_WordCountFrom600(f, word_count) ==
    LET g == [f EXCEPT !.details =
                Put(@, "content_metrics", [word_count |-> word_count])]
    IN  IF word_count < 600
        THEN Deduct(g, 10,
                    "Content is short (N words). Consider adding more depth",
                    "Add more comprehensive information (aim for 1000+ words)")
        ELSE g

\* step 0: content metrics and word count assessment
SEO_WordCount(f, word_count) ==
    LET g == [f EXCEPT !.details =
                Put(@, "content_metrics", [word_count |-> word_count])]
    IN  IF word_count < 300
        THEN Deduct(g, 20,
                    "Content is too short (N words). Aim for 800-2000 words",
                    "Expand content with more details, examples, and value")
        ELSE IF word_count < 600
        THEN Deduct(g, 10,
                    "Content is short (N words). Consider adding more depth",
                    "Add more comprehensive information (aim for 1000+ words)")
        ELSE IF word_count > 3000
        THEN Deduct(g, 0,
                    "Very long content (N words) - ensure it stays engaging",
                    "Consider breaking into multiple articles or adding clear navigation")
        ELSE g

\* density < 0.5 without the test of total_words
DensityLowUnguarded(count, keyword_words, total_words) ==
    count * keyword_words * 200 < total_words

\* _analyze_keyword_density: density < 0.5, density > 3, with
\* density = (count * keyword_words / total_words) * 100, 0 when no words
DensityLow(count, keyword_words, total_words) ==
    total_words = 0 \/ count * keyword_words * 200 < total_words
DensityHigh(count, keyword_words, total_words) ==
    total_words > 0 /\ count * keyword_words * 100 > 3 * total_words

\* step 1: keyword density
SEO_Keyword(f, target_keyword, count) ==
    LET total_words == f.details["content_metrics"].word_count
        kw == KeywordWords(target_keyword)
    IN  IF target_keyword = "" THEN f
        ELSE IF DensityLow(count, kw, total_words)
        THEN Deduct(f, 15, "Keyword appears only N times (D% density)",
                    "Increase keyword to 5-7 mentions (1.5% density)")
        ELSE IF DensityHigh(count, kw, total_words)
        THEN Deduct(f, 10, "Keyword density too high: D% - may look spammy",
                    "Reduce keyword usage to maintain natural flow (aim for 1-2% density)")
        ELSE Good(f, "Good keyword density")

\* step 2: readability
SEO_Readability(f, flesch) ==
    IF flesch < 30
    THEN Deduct(f, 15, "Content is very difficult to read",
                "Simplify sentences and use shorter words to improve readability")
    ELSE IF flesch < 50
    THEN Deduct(f, 8, "Content is somewhat difficult to read",
                "Consider breaking complex sentences into simpler ones")
    ELSE Good(f, "Good readability")

\* _analyze_headers: bare strings are skipped
NormalizedHeaders(headers) == SelectSeq(headers, LAMBDA h : h.kind = "dict")

HasLevel(hs, level) == \E i \in 1..Len(hs) : hs[i].level = level

AnalyzeHeaders(headers, target_keyword) ==
    LET normalized_headers == NormalizedHeaders(headers)
        has_h1 == HasLevel(normalized_headers, "h1")
        has_h2 == HasLevel(normalized_headers, "h2")
    IN  [has_h1 |-> has_h1,
         has_h2 |-> has_h2,
         has_h3 |-> HasLevel(normalized_headers, "h3"),
         has_hierarchy |-> has_h1 /\ has_h2,
         total_headers |-> Len(normalized_headers),
         keyword_in_headers |->
            /\ target_keyword # ""
            /\ \E i \in 1..Len(normalized_headers) :
                   KeywordInText(target_keyword, normalized_headers[i].text)]

\* step 3: header structure ("if headers:" is true of any non-empty list)
SEO_Headers(f, headers, target_keyword) ==
    IF Len(headers) > 0
    THEN LET header_analysis == AnalyzeHeaders(headers, target_keyword)
             f0 == [f EXCEPT !.details = Put(@, "headers", header_analysis)]
             f1 == IF ~header_analysis.has_h1
                   THEN Deduct(f0, 20, "No H1 header found",
                               "Add a clear H1 header as the main title")
                   ELSE f0
             f2 == IF ~header_analysis.has_hierarchy
                   THEN Deduct(f1, 10,
                               "Header hierarchy is incomplete (missing H2 or H3)",
                               "Use proper header hierarchy: H1 -> H2 -> H3")
                   ELSE Good(f1, "Header structure present (H1, H2, H3)")
         IN  IF target_keyword # "" /\ ~header_analysis.keyword_in_headers
             THEN Deduct(f2, 10, "Target keyword not found in any headers",
                         "Include keyword in at least one header")
             ELSE f2
    ELSE Deduct(f, 15, "No header structure detected",
                "Add clear headers (H1, H2, H3) to organize content")

\* step 4: meta description
SEO_Meta(f, meta_len) ==
    IF meta_len = 0
    THEN Deduct(f, 15, "No meta description detected",
                "Add meta description (150-160 characters)")
    ELSE IF meta_len < 120
    THEN Deduct(f, 8, "Meta description too short: N characters",
                "Expand meta description to 150-160 characters")
    ELSE IF meta_len > 160
    THEN Deduct(f, 5, "Meta description too long: N characters",
                "Shorten meta description to 150-160 characters")
    ELSE Good(f, "Good meta description length")

\* step 5 on the tiers of step 0
SEO_LengthTiersOfStep0(f) ==
    LET word_count == f.details["content_metrics"].word_count
        g == [f EXCEPT !.details = Put(@, "word_count", word_count)]
    IN  IF word_count < 300
        THEN Deduct(g, 20, "Content too short: N words",
                    "Expand content to at least 1,000 words for better SEO")
        ELSE IF word_count < 600
        THEN Deduct(g, 10, "Content length moderate: N words",
                    "Consider expanding to 1,500-2,500 words for competitive keywords")
        ELSE g

\* step 5: content length, on the same text
SEO_Length(f) ==
    LET word_count == f.details["content_metrics"].word_count
        g == [f EXCEPT !.details = Put(@, "word_count", word_count)]
    IN  IF word_count < 300
        THEN Deduct(g, 20, "Content too short: N words",
                    "Expand content to at least 1,000 words for better SEO")
        ELSE IF word_count < 800
        THEN Deduct(g, 10, "Content length moderate: N words",
                    "Consider expanding to 1,500-2,500 words for competitive keywords")
        ELSE g

\* SEOAnalyzer.analyze as one function of its measurements
SEOAnalyze(word_count, target_keyword, count, flesch, headers, meta_len) ==
    FlooredTop3(
        SEO_Length(
            SEO_Meta(
                SEO_Headers(
                    SEO_Readability(
                        SEO_Keyword(SEO_WordCount(NewFrame, word_count),
                                    target_keyword, count),
                        flesch),
                    headers, target_keyword),
                meta_len)))

---------------------------------------------------------------------------
(* SERPScraper, as SERPAnalyzer sees it *)

\* most search results a sample scrape returns (the code asks for 10)
MaxResults == 3

\* fetch_page_content(url): what the analyzer reads of a fetched page.
\* stats_total is len(re.findall(...)) of the page's statistics.
RichPage == [word_count |-> 3000, header_count |-> 12, has_stats |-> TRUE,
             stats_total |-> 8, has_examples |-> TRUE,
             has_comparisons |-> TRUE, has_lists |-> TRUE]
PlainPage == [word_count |-> 1000, header_count |-> 4, has_stats |-> FALSE,
              stats_total |-> 0, has_examples |-> FALSE,
              has_comparisons |-> FALSE, has_lists |-> FALSE]
\* a page whose fetch failed, or that holds no text
DeadPage == [word_count |-> 0, header_count |-> 0, has_stats |-> FALSE,
             stats_total |-> 0, has_examples |-> FALSE,
             has_comparisons |-> FALSE, has_lists |-> FALSE]

\* scrape_google_results(keyword): a list of results ([] when the scrape
\* fails), each with a url
SearchResults == {Rep(n, "url") : n \in 0..MaxResults}

\* fetch_page_content(result['url']) for each of n results
PageContents(n) ==
    {Rep(r, RichPage) \o Rep(p, PlainPage) \o Rep(n - r - p, DeadPage) :
        r \in 0..n, p \in 0..n} \cap [1..n -> {RichPage, PlainPage, DeadPage}]

---------------------------------------------------------------------------
(* SERPAnalyzer *)

\* _get_fallback_serp_data
FallbackSerpData ==
    [avg_word_count |-> 2500,
     avg_topics |-> 8,
     patterns |-> [has_stats |-> 75, has_examples |-> 70,
                   has_comparisons |-> 60, has_lists |-> 85, avg_stats |-> 6]]

\* sum(F(x) for x in s)
SumOf(s, F(_)) ==
    LET S[i \in 0..Len(s)] == IF i = 0 THEN 0 ELSE S[i - 1] + F(s[i])
    IN  S[Len(s)]

CountOf(s, P(_)) == Len(SelectSeq(s, P))

\* the pages that add to word_counts: content['word_count'] > 0
UsablePages(contents) == SelectSeq(contents, LAMBDA c : c.word_count > 0)

\* _analyze_serp_results(results); contents[i] is what fetch_page_content
\* returns for results[i]
AnalyzeSerpResults(contents) ==
    LET usable == UsablePages(contents)
        valid_count == IF Len(usable) = 0 THEN 1 ELSE Len(usable)
        has_stats == CountOf(usable, LAMBDA c : c.has_stats)
        has_examples == CountOf(usable, LAMBDA c : c.has_examples)
        has_comparisons == CountOf(usable, LAMBDA c : c.has_comparisons)
        has_lists == CountOf(usable, LAMBDA c : c.has_lists)
        total_stats ==
            SumOf(usable, LAMBDA c : IF c.has_stats THEN c.stats_total ELSE 0)
    IN  [avg_word_count |->
            IF Len(usable) > 0
            THEN SumOf(usable, LAMBDA c : c.word_count) \div valid_count
            ELSE 2500,
         avg_topics |->
            IF Len(usable) > 0
            THEN SumOf(usable, LAMBDA c : c.header_count) \div valid_count
            ELSE 8,
         patterns |->
            [has_stats |-> (has_stats * 100) \div valid_count,
             has_examples |-> (has_examples * 100) \div valid_count,
             has_comparisons |-> (has_comparisons * 100) \div valid_count,
             has_lists |-> (has_lists * 100) \div valid_count,
             avg_stats |-> IF has_stats > 0 THEN total_stats \div valid_count
                           ELSE 5]]

\* step 0: "if not target_keyword: return {...}"
SERP_NoKeywordReport ==
    [score |-> 50,
     issues |-> <<"No target keyword provided">>,
     recommendations |-> <<"Specify a target keyword for SERP analysis">>,
     details |-> [serp_data |-> None]]

\* step 1: fetch SERP competitors; serp_results is what the search returned
\* and contents what the page fetches return for serp_results[:10]
SERP_Fetch(f, target_keyword, serp_results, contents) ==
    LET d0 == Put(Put(f.details, "target_keyword", target_keyword),
                  "serp_results_found", Len(serp_results))
    IN  [f EXCEPT !.details =
            IF Len(serp_results) < 3
            THEN Put(Put(d0, "serp_data", FallbackSerpData), "note",
                     "Using industry benchmark data (SERP scraping unavailable)")
            ELSE Put(d0, "serp_data", AnalyzeSerpResults(contents))]

\* scraper calls of step 1: one search, and one page fetch per result analysed
SERP_FetchCalls(serp_results) ==
    [search |-> 1,
     fetch |-> IF Len(serp_results) < 3 THEN 0
               ELSE Len(Take(serp_results, 10))]

\* the scrape moved before the keyword check
SERP_CallsScrapeFirst(target_keyword, serp_results) == SERP_FetchCalls(serp_results)

\* scraper calls of analyze(): none when the keyword check returns early
SERP_Calls(target_keyword, serp_results) ==
    IF target_keyword = "" THEN NoNet ELSE SERP_FetchCalls(serp_results)

\* the page fetches step 1 can see: none on the fallback path
FetchedContents(serp_results) ==
    IF Len(serp_results) < 3 THEN {<<>>}
    ELSE PageContents(Len(Take(serp_results, 10)))

\* word_count_ratio < bound, with the ratio user / avg (0 when avg is 0) and
\* the bound in tenths
RatioBelow(user, avg, tenths) ==
    IF avg > 0 THEN 10 * user < tenths * avg ELSE TRUE

\* step 2: word count against the SERP average
SERP_WordCount(f, user_word_count) ==
    LET avg_word_count == f.details["serp_data"].avg_word_count
        g == [f EXCEPT !.details =
                Put(@, "word_count_comparison",
                    [user |-> user_word_count, serp_avg |-> avg_word_count])]
    IN  IF RatioBelow(user_word_count, avg_word_count, 6)
        THEN Deduct(g, 25, "Content N% shorter than SERP average",
                    "Expand to N+ words covering missing subtopics")
        ELSE IF RatioBelow(user_word_count, avg_word_count, 8)
        THEN Deduct(g, 15, "Content slightly shorter than SERP leaders (N vs M avg)",
                    "Add N more words of valuable content")
        ELSE g

\* _suggest_missing_topics(keyword, user_count, avg_count); topics[:n] with
\* n = int(avg_count - user_count), which the caller uses only when n > 0
SuggestMissingTopics(keyword, user_count, avg_count) ==
    IF keyword = "laptop"
    THEN Take(<<"Price comparisons", "Battery life tests",
                "Performance benchmarks", "User reviews">>,
              Max(0, avg_count - user_count))
    ELSE <<"Detailed comparisons", "User testimonials", "Expert analysis",
           "Pricing breakdown">>

\* step 3: topic coverage; "headers if headers else []" keeps any list
SERP_Topics(f, target_keyword, headers) ==
    LET user_topic_count == Len(headers)
        avg_topic_count == f.details["serp_data"].avg_topics
        common_missing_topics ==
            SuggestMissingTopics(target_keyword, user_topic_count, avg_topic_count)
        g == [f EXCEPT !.details =
                Put(@, "topic_coverage",
                    [user |-> user_topic_count, serp_avg |-> avg_topic_count])]
        g1 == DeductNoRec(g, 20, "Missing N key subtopics that top rankers cover:")
        g2 == IF Len(common_missing_topics) > 0
              THEN DeductNoRec(g1, 0, "-> TOPICS") ELSE g1
    IN  IF 10 * user_topic_count < 6 * avg_topic_count
        THEN [g2 EXCEPT !.recommendations =
                Append(@, "Add N+ subtopics covering TOPICS")]
        ELSE g

\* re.findall counts and flags of _analyze_content_elements on the sample texts
StatsCounts == {0, 1, 3}
ExamplesCounts == {0, 2}

\* step 4: content elements
SERP_Elements(f, elements) ==
    LET patterns == f.details["serp_data"].patterns
        f0 == [f EXCEPT !.details = Put(@, "content_elements", elements)]
        f1 == IF ~elements.has_comparison /\ patterns.has_comparisons > 70
              THEN Deduct(f0, 15, "No product comparisons (N% of top 10 have them)",
                          "Add 2-3 product comparisons with real examples")
              ELSE f0
        f2 == IF elements.stats_count = 0 /\ patterns.has_stats > 60
              THEN Deduct(f1, 15, "Only N data point (top rankers avg M stats)",
                          "Include N-7 data points/statistics")
              ELSE IF elements.stats_count < 3
              THEN DeductNoRec(f1, 10, "Only N data points found")
              ELSE f1
    IN  IF elements.examples_count = 0 /\ patterns.has_examples > 70
        THEN Deduct(f2, 10, "No concrete examples or case studies found",
                    "Add 2-3 real-world examples or case studies")
        ELSE f2

\* step 5: competitor fingerprint
SERP_Fingerprint(f) ==
    LET patterns == f.details["serp_data"].patterns
        elements == f.details["content_elements"]
        fingerprint ==
            (IF patterns.has_comparisons > 70
             THEN <<"N% include comparison tables">> ELSE <<>>)
            \o (IF patterns.has_stats > 60
                THEN <<"N% include data/statistics">> ELSE <<>>)
            \o (IF patterns.has_examples > 70
                THEN <<"N% use case studies">> ELSE <<>>)
            \o (IF patterns.has_lists > 80
                THEN <<"N% use bullet points/lists">> ELSE <<>>)
    IN  [f EXCEPT
            !.recommendations =
                IF patterns.has_comparisons > 70 /\ ~elements.has_comparison
                THEN Append(@, "Add product/option comparison table") ELSE @,
            !.details = Put(@, "competitor_fingerprint", fingerprint)]

\* _predict_ranking with the first tier above 85
PredictRankingAbove85(s, ratio_num, ratio_den, user_topics, avg_topics) ==
    LET base == IF s > 85 /\ 10 * ratio_num >= 9 * ratio_den THEN 3
                ELSE IF s >= 75 /\ 10 * ratio_num >= 8 * ratio_den THEN 6
                ELSE IF s >= 65 THEN 10
                ELSE IF s >= 55 THEN 15
                ELSE IF s >= 45 THEN 22
                ELSE 35
        position == IF 10 * user_topics < 7 * avg_topics THEN base + 5 ELSE base
    IN  [current_position |-> position,
         current_page |-> (position - 1) \div 10 + 1]

\* _predict_ranking with the second tier for ratios up to 0.8
PredictRankingUpTo08(s, ratio_num, ratio_den, user_topics, avg_topics) ==
    LET base == IF s >= 85 /\ 10 * ratio_num >= 9 * ratio_den THEN 3
                ELSE IF s >= 75 /\ 10 * ratio_num <= 8 * ratio_den THEN 6
                ELSE IF s >= 65 THEN 10
                ELSE IF s >= 55 THEN 15
                ELSE IF s >= 45 THEN 22
                ELSE 35
        position == IF 10 * user_topics < 7 * avg_topics THEN base + 5 ELSE base
    IN  [current_position |-> position,
         current_page |-> (position - 1) \div 10 + 1]

\* _predict_ranking(score, word_ratio, user_topics, avg_topics); word_ratio
\* is ratio_num / ratio_den
PredictRanking(s, ratio_num, ratio_den, user_topics, avg_topics) ==
    LET base == IF s >= 85 /\ 10 * ratio_num >= 9 * ratio_den THEN 3
                ELSE IF s >= 75 /\ 10 * ratio_num >= 8 * ratio_den THEN 6
                ELSE IF s >= 65 THEN 10
                ELSE IF s >= 55 THEN 15
                ELSE IF s >= 45 THEN 22
                ELSE 35
        position == IF 10 * user_topics < 7 * avg_topics THEN base + 5 ELSE base
    IN  [current_position |-> position,
         current_page |-> (position - 1) \div 10 + 1]

\* step 6: predict the ranking position
SERP_Predict(f) ==
    LET wc == f.details["word_count_comparison"]
        tc == f.details["topic_coverage"]
        prediction ==
            IF wc.serp_avg > 0
            THEN PredictRanking(f.score, wc.user, wc.serp_avg, tc.user, tc.serp_avg)
            ELSE PredictRanking(f.score, 0, 1, tc.user, tc.serp_avg)
        g == [f EXCEPT !.details = Put(@, "ranking_prediction", prediction)]
    IN  IF prediction.current_position > 10
        THEN DeductNoRec(g, 0, "Predicted Performance: Page N (positions A-B)")
        ELSE g

\* step 7 taken up to score 80
SERP_ImproveUpTo80(f) ==
    LET avg_topic_count == f.details["topic_coverage"].serp_avg
        improved_prediction ==
            PredictRanking(Min(f.score + 30, 95), 95, 100,
                           avg_topic_count, avg_topic_count)
    IN  IF f.score <= 80
        THEN [f EXCEPT
                !.details =
                    Put(@, "ranking_prediction",
                        Put(@["ranking_prediction"], "with_improvements",
                            improved_prediction)),
                !.recommendations =
                    Append(@, "With improvements: Predicted Page N potential (positions A-B)")]
        ELSE f

\* step 7 predicting the improved rank at the user's own word-count ratio
SERP_ImproveAtOwnRatio(f) ==
    LET avg_topic_count == f.details["topic_coverage"].serp_avg
        wc == f.details["word_count_comparison"]
        improved_prediction ==
            IF wc.serp_avg > 0
            THEN PredictRanking(Min(f.score + 30, 95), wc.user, wc.serp_avg,
                                avg_topic_count, avg_topic_count)
            ELSE PredictRanking(Min(f.score + 30, 95), 0, 1,
                                avg_topic_count, avg_topic_count)
    IN  IF f.score < 80
        THEN [f EXCEPT
                !.details =
                    Put(@, "ranking_prediction",
                        Put(@["ranking_prediction"], "with_improvements",
                            improved_prediction)),
                !.recommendations =
                    Append(@, "With improvements: Predicted Page N potential (positions A-B)")]
        ELSE f

\* step 7: the prediction with improvements
SERP_Improve(f) ==
    LET avg_topic_count == f.details["topic_coverage"].serp_avg
        improved_prediction ==
            PredictRanking(Min(f.score + 30, 95), 95, 100,
                           avg_topic_count, avg_topic_count)
    IN  IF f.score < 80
        THEN [f EXCEPT
                !.details =
                    Put(@, "ranking_prediction",
                        Put(@["ranking_prediction"], "with_improvements",
                            improved_prediction)),
                !.recommendations =
                    Append(@, "With improvements: Predicted Page N potential (positions A-B)")]
        ELSE f

\* SERPAnalyzer.analyze as one function of its measurements and of what the
\* scraper returns; the sample texts' len(text.split()) and header lists
SERPWordCounts == {0, 250, 1600, 2100, 2375}
SERPHeaderInputs ==
    {<<>>, MkHeaders(1, 2, 2, FALSE), MkHeaders(1, 3, 2, FALSE),
     MkHeaders(1, 4, 4, FALSE), MkStrings(6, FALSE)}
ContentElements ==
    [stats_count : StatsCounts, examples_count : ExamplesCounts,
     has_comparison : BOOLEAN]

SERPAnalyze(user_word_count, target_keyword, headers, elements, serp_results, contents) ==
    IF target_keyword = "" THEN SERP_NoKeywordReport
    ELSE FlooredTop3(
            SERP_Improve(
                SERP_Predict(
                    SERP_Fingerprint(
                        SERP_Elements(
                            SERP_Topics(
                                SERP_WordCount(
                                    SERP_Fetch(NewFrame, target_keyword,
                                               serp_results, contents),
                                    user_word_count),
                                target_keyword, headers),
                            elements)))))

---------------------------------------------------------------------------
(* AEOAnalyzer *)

\* most occurrences of one list marker in a sample text
MaxMarkers == 3

\* len(re.findall(url_pattern)) and len(re.findall(source_keywords))
UrlCounts == {0, 1, 3}
SourceMentionCounts == {0, 2}

\* re.findall(definition_patterns) and direct-answer sentences
DefinitionCounts == {0, 1, 2}
DirectAnswerCounts == {0, 2, 3}

\* _detect_citations
DetectCitations(urls, source_mentions) ==
    [count |-> urls + source_mentions, urls |-> urls,
     source_mentions |-> source_mentions]

\* step 1: citations
AEO_Citations(f, urls, source_mentions) ==
    LET citations == DetectCitations(urls, source_mentions)
        g == [f EXCEPT !.details = Put(@, "citations", citations)]
    IN  IF citations.count = 0
        THEN Deduct(g, 25, "No citations or sources found",
                    "Add 3-5 authoritative sources with links")
        ELSE IF citations.count < 3
        THEN Deduct(g, 15, "Only N citation(s) found",
                    "Add more authoritative sources (aim for 3-5)")
        ELSE [g EXCEPT !.details =
                Put(@, "good_points", <<"N citations with sources">>)]

\* the list markers of the sample texts: bullet characters (U+2022),
\* occurrences of the three-character sequence that the source's literal
\* holds (U+00E2 U+20AC U+00A2), lines starting "- ", "1." and "2."; the
\* samples have markers of one kind, or the numbered list 1. 2.
NoMarkers ==
    [bullet_chars |-> 0, bullet_sequences |-> 0, dash_lines |-> 0,
     one_lines |-> 0, two_lines |-> 0]
ListMarkers ==
    {[NoMarkers EXCEPT ![kind] = n] :
        kind \in {"bullet_chars", "bullet_sequences", "dash_lines",
                  "one_lines", "two_lines"},
        n \in 0..MaxMarkers}
    \cup {[NoMarkers EXCEPT !.one_lines = 1, !.two_lines = 1]}

\* has_lists of _analyze_structured_content, from text.count of the bullet
\* sequence, of "\n- ", of "\n1." and of "\n2."
HasLists(bullets, dash_lines, one_lines, two_lines) ==
    bullets > 2 \/ dash_lines > 2 \/ one_lines > 1 \/ two_lines > 1

\* step 2: structured content
AEO_Structured(f, structured) ==
    LET f0 == [f EXCEPT !.details = Put(@, "structured_content", structured)]
        f1 == IF ~structured.has_faq_pattern
              THEN Deduct(f0, 15, "No FAQ section detected",
                          "Add FAQ section with schema markup (great for featured snippets)")
              ELSE f0
        f2 == IF ~structured.has_lists
              THEN Deduct(f1, 10, "No bulleted or numbered lists found",
                          "Use lists for better scannability and AI parsing")
              ELSE f1
    IN  IF ~structured.has_how_to_pattern
        THEN Deduct(f2, 10, "No step-by-step instructions detected",
                    "Add clear step-by-step format (enhances AI understanding)")
        ELSE f2

\* step 3: AI-friendly patterns
AEO_Patterns(f, ai_patterns) ==
    LET f0 == [f EXCEPT !.details = Put(@, "ai_patterns", ai_patterns)]
        f1 == IF ai_patterns.definition_count < 2
              THEN Deduct(f0, 10, "Few clear definitions found",
                          "Define key terms clearly (helps AI understand context)")
              ELSE f0
    IN  IF ~ai_patterns.has_summary
        THEN Deduct(f1, 10, "No summary or conclusion section",
                    "Add a clear summary or key takeaways section")
        ELSE f1

\* step 4: answer-style content
AEO_Answers(f, direct_answers) ==
    LET g == [f EXCEPT !.details =
                Put(@, "answer_style", [direct_answers |-> direct_answers])]
    IN  IF direct_answers < 3
        THEN Deduct(g, 10, "Content lacks direct, quotable answers",
                    "Include direct answers to common questions")
        ELSE g

\* AEOAnalyzer.analyze as one function of its measurements
AEOAnalyze(urls, source_mentions, structured, ai_patterns, direct_answers) ==
    FlooredTop3(
        AEO_Answers(
            AEO_Patterns(
                AEO_Structured(AEO_Citations(NewFrame, urls, source_mentions),
                               structured),
                ai_patterns),
            direct_answers))

---------------------------------------------------------------------------
(* HumanizationAnalyzer *)

\* most sentences of a sample text
MaxSentences == 11

\* A text as re.split(r'[.!?]+', text) cuts it: one record per piece, with
\* len(piece.strip()), len(piece.split()) and piece.split()[0].lower()
Piece(chars, words, starter) ==
    [chars |-> chars, words |-> words, starter |-> starter]

Starters == <<"the", "this", "it", "we">>
LengthCycles == <<<<12, 12, 12>>, <<8, 12, 16>>, <<4, 12, 30>>>>

\* n sentences, the i-th starting with the (i mod k)-th starter and as long
\* as the (i mod 3)-th entry of cycle p, then a piece of 10 characters
\* ("Ok then ok") when short, then the empty piece that follows the last full stop
MkPieces(n, k, p, short) ==
    [i \in 1..n |->
        Piece(40, LengthCycles[p][((i - 1) % 3) + 1], Starters[((i - 1) % k) + 1])]
    \o (IF short THEN <<Piece(10, 2, "ok")>> ELSE <<>>)
    \o <<Piece(0, 0, "")>>

TextPieces ==
    {MkPieces(n, k, p, short) :
        n \in 0..MaxSentences, k \in {1, 4}, p \in 1..3, short \in BOOLEAN}

\* len(text.split()), taken as the words of the pieces
TextWords(pieces) == SumOf(pieces, LAMBDA s : s.words)

\* _split_sentences keeping the sentences of 10 characters
SplitSentencesFrom10(pieces) == SelectSeq(pieces, LAMBDA s : s.chars >= 10)

\* _split_sentences
SplitSentences(pieces) == SelectSeq(pieces, LAMBDA s : s.chars > 10)

HUM_TooShortReport ==
    [score |-> 50,
     issues |-> <<"Content too short for humanization analysis">>,
     recommendations |-> <<"Add more content">>,
     details |-> EmptyDict]

SeqMax(s, F(_)) ==
    LET M[i \in 0..Len(s)] == IF i = 0 THEN 0 ELSE Max(M[i - 1], F(s[i]))
    IN  M[Len(s)]

\* _analyze_sentence_starters (every sentence has a first word)
AnalyzeSentenceStarters(sentences) ==
    LET total == Len(sentences)
        Count(w) == CountOf(sentences, LAMBDA s : s.starter = w)
        top_repetitions == SeqMax(sentences, LAMBDA s : Count(s.starter))
        first == CHOOSE i \in 1..total :
                    /\ Count(sentences[i].starter) = top_repetitions
                    /\ \A j \in 1..(i - 1) :
                          Count(sentences[j].starter) < top_repetitions
    IN  [total_sentences |-> total,
         unique_starters |->
            Cardinality({sentences[i].starter : i \in 1..total}),
         repetition_rate |->
            IF total > 0 THEN (top_repetitions * 100) \div total ELSE 0,
         most_common |->
            IF total > 0 THEN sentences[first].starter ELSE "same way"]

\* step 1: sentence starter variety
HUM_Starters(f, sentences) ==
    LET starters == AnalyzeSentenceStarters(sentences)
        g == [f EXCEPT !.details = Put(@, "sentence_starters", starters)]
    IN  IF starters.repetition_rate > 40
        THEN Deduct(g, 20, "N% sentences start same way",
                    "Vary sentence starters and lengths")
        ELSE IF starters.repetition_rate > 25
        THEN Deduct(g, 10, "N% sentences have repetitive starts",
                    "Mix up sentence beginnings more")
        ELSE g

\* round(std_dev, 1) in tenths, for the population standard deviation of the
\* sentence lengths: the t with (t - 0.5)^2 <= 100 * variance < (t + 0.5)^2,
\* where variance = v / n^2 and v = n * sum(x^2) - sum(x)^2
StdDevTenths(lengths) ==
    LET n == Len(lengths)
        v == n * SumOf(lengths, LAMBDA x : x * x)
                - SumOf(lengths, LAMBDA x : x) * SumOf(lengths, LAMBDA x : x)
    IN  IF n > 1
        THEN CHOOSE t \in 0..(10 * SeqMax(lengths, LAMBDA x : x)) :
                /\ (2 * t - 1) * (2 * t - 1) * n * n <= 400 * v \/ t = 0
                /\ 400 * v < (2 * t + 1) * (2 * t + 1) * n * n
        ELSE 0

\* _analyze_sentence_lengths
AnalyzeSentenceLengths(sentences) ==
    LET lengths == [i \in 1..Len(sentences) |-> sentences[i].words]
    IN  [std_dev_tenths |-> StdDevTenths(lengths),
         max_length |-> SeqMax(lengths, LAMBDA x : x)]

\* step 2: sentence length variation
HUM_Lengths(f, sentences) ==
    LET length_analysis == AnalyzeSentenceLengths(sentences)
        g == [f EXCEPT !.details = Put(@, "sentence_lengths", length_analysis)]
    IN  IF length_analysis.std_dev_tenths < 30
        THEN Deduct(g, 20, "Low sentence length variation",
                    "Vary sentence lengths - mix short punchy sentences with longer detailed ones")
        ELSE IF length_analysis.std_dev_tenths < 50
        THEN DeductNoRec(g, 10, "Moderate sentence length variation")
        ELSE g

\* counts of the sample texts: formulaic phrases present, adverb matches,
\* transition words
FormulaicCounts == {0, 2, 3}
AdverbCounts == {0, 1, 9}
TransitionCounts == {0, 1, 5}

\* pattern 5 of _detect_ai_patterns: (first word, len(words) // 5) of the
\* first 10 sentences
SentencePatterns(sentences) ==
    LET first10 == Take(sentences, 10)
    IN  [i \in 1..Len(first10) |-> <<first10[i].starter, first10[i].words \div 5>>]

\* _detect_ai_patterns; m holds the text's measurements
DetectAIPatterns(m, word_count, sentences) ==
    LET sentence_patterns == SentencePatterns(sentences)
        unique_patterns ==
            Cardinality({sentence_patterns[i] : i \in 1..Len(sentence_patterns)})
        p1 == m.has_delve
        p2 == m.formulaic_count > 2
        p3 == word_count > 0 /\ m.adverb_count * 100 > 2 * word_count
        p4 == ~m.has_fragments /\ ~m.has_informal /\ Len(sentences) > 10
        p5 == 10 * unique_patterns < 6 * Len(sentence_patterns)
        ai_score == (IF p1 THEN 15 ELSE 0) + (IF p2 THEN 20 ELSE 0)
                    + (IF p3 THEN 15 ELSE 0) + (IF p4 THEN 10 ELSE 0)
                    + (IF p5 THEN 15 ELSE 0)
        detected ==
            (IF p1 THEN <<"uses 'delve' (rare in human writing)">> ELSE <<>>)
            \o (IF p2 THEN <<"N formulaic phrases">> ELSE <<>>)
            \o (IF p3 THEN <<"excessive adverbs">> ELSE <<>>)
            \o (IF p4 THEN <<"overly perfect grammar">> ELSE <<>>)
            \o (IF p5 THEN <<"repetitive sentence structure">> ELSE <<>>)
    IN  [ai_score |-> Min(ai_score, 100),
         detected_patterns |->
            IF detected # <<>> THEN detected ELSE <<"none detected">>]

\* step 3 with the high tier starting at a score of 60
HUM_AIPatternsFrom60(f, m, word_count, sentences) ==
    LET ai_patterns == DetectAIPatterns(m, word_count, sentences)
        g == [f EXCEPT !.details = Put(@, "ai_patterns", ai_patterns)]
    IN  IF ai_patterns.ai_score >= 60
        THEN [Deduct(g, 25, "High AI pattern score: N%",
                     "Rewrite to sound more conversational and less formulaic")
                EXCEPT !.issues = Append(@, "Detected: PATTERNS")]
        ELSE IF ai_patterns.ai_score > 40
        THEN DeductNoRec(g, 15, "Moderate AI patterns detected: N%")
        ELSE g

\* step 3: AI pattern detection
HUM_AIPatterns(f, m, word_count, sentences) ==
    LET ai_patterns == DetectAIPatterns(m, word_count, sentences)
        g == [f EXCEPT !.details = Put(@, "ai_patterns", ai_patterns)]
    IN  IF ai_patterns.ai_score > 60
        THEN [Deduct(g, 25, "High AI pattern score: N%",
                     "Rewrite to sound more conversational and less formulaic")
                EXCEPT !.issues = Append(@, "Detected: PATTERNS")]
        ELSE IF ai_patterns.ai_score > 40
        THEN DeductNoRec(g, 15, "Moderate AI patterns detected: N%")
        ELSE g

\* _analyze_transitions: the sentences are split again from the same text
AnalyzeTransitions(transition_count, sentences) ==
    [transition_count |-> transition_count,
     overuse_rate |->
        IF Len(sentences) > 0
        THEN (transition_count * 100) \div Len(sentences) ELSE 0]

\* step 4: transition word overuse
HUM_Transitions(f, transition_count, sentences) ==
    LET transitions == AnalyzeTransitions(transition_count, sentences)
        g == [f EXCEPT !.details = Put(@, "transitions", transitions)]
    IN  IF transitions.overuse_rate > 30
        THEN Deduct(g, 10, "Overuse of transition words (very AI-like)",
                    "Reduce formulaic transitions like 'moreover', 'furthermore', 'additionally'")
        ELSE g

\* step 5: natural flow indicators
HUM_Flow(f, flow) ==
    LET f0 == [f EXCEPT !.details = Put(@, "natural_flow", flow)]
        f1 == IF ~flow.has_contractions
              THEN Deduct(f0, 10, "No contractions used (sounds stiff)",
                          "Use contractions (don't, can't, it's) for natural tone")
              ELSE f0
    IN  IF ~flow.has_questions
        THEN Deduct(f1, 5, "No questions to engage reader",
                    "Add rhetorical questions to engage readers")
        ELSE f1

\* HumanizationAnalyzer.analyze as one function of the text's pieces and
\* measurements (the heatmap, which only fills details, is left out)
HUMAnalyze(pieces, m, transition_count, flow) ==
    LET sentences == SplitSentences(pieces)
    IN  IF Len(sentences) < 3 THEN HUM_TooShortReport
        ELSE FlooredTop3(
                HUM_Flow(
                    HUM_Transitions(
                        HUM_AIPatterns(
                            HUM_Lengths(HUM_Starters(NewFrame, sentences),
                                        sentences),
                            m, TextWords(pieces), sentences),
                        transition_count, sentences),
                    flow))

---------------------------------------------------------------------------
(* DifferentiationAnalyzer *)

\* generic phrases present, len(re.split(r'[.!?]+', text)), re.findall
\* counts of personal examples and original data, voice indicator counts
GenericCounts == {0, 2, 6, 11, 12}
SplitCounts == {1, 3, 10, 17, 27}
PersonalCounts == {0, 2}
OriginalDataCounts == {0, 1}
CasualCounts == {0, 4}
TechnicalCounts == {0, 4}
PlayfulCounts == {0, 3}
StoryCounts == {0, 3}

\* the serp_data argument: absent, {}, or the details of a SERP report
\* without a keyword, on benchmark data, on scraped data
SerpArguments ==
    {None, EmptyDict} \cup
    {SERPAnalyze(1600, k, <<>>, [stats_count |-> 0, examples_count |-> 0, has_comparison |-> FALSE], Rep(n, "url"), Rep(n, RichPage)).details :
        k \in {"", "laptop"}, n \in {0, 3}}

\* the indicator lists of _analyze_basic_uniqueness
PersonalIndicators ==
    {"in my experience", "i found", "we discovered", "our research",
     "we tested", "my team", "our analysis", "we analyzed"}
PerspectiveIndicators ==
    {"student", "beginner", "expert", "professional", "small business",
     "enterprise", "startup", "freelancer", "mom", "dad", "senior"}

\* the phrases of the sample texts, as written
SamplePhrases == {"In my experience", "we tested", "Student", "senior", "best practices"}

\* _analyze_basic_uniqueness comparing the text as written
AnalyzeBasicUniquenessAsWritten(phrases) ==
    [has_unique_examples |-> phrases \cap PersonalIndicators # {},
     has_unique_angle |-> phrases \cap PerspectiveIndicators # {}]

\* _analyze_basic_uniqueness on a text holding the given phrases
AnalyzeBasicUniqueness(phrases) ==
    LET text_lower == {Lower(p) : p \in phrases}
    IN  [has_unique_examples |-> \E indicator \in PersonalIndicators : indicator \in text_lower,
         has_unique_angle |-> \E indicator \in PerspectiveIndicators : indicator \in text_lower]

\* "not serp_data or 'serp_data' not in serp_data"
NoSerpData(serp_data) ==
    \/ serp_data = None
    \/ DOMAIN serp_data = {}
    \/ "serp_data" \notin DOMAIN serp_data

\* basic analysis without SERP data; returns the report as it stands
DIFF_Basic(f, uniqueness) ==
    LET f0 == [f EXCEPT !.details = Put(@, "uniqueness", uniqueness)]
        f1 == IF ~uniqueness.has_unique_examples
              THEN Deduct(f0, 20, "No unique examples or data points detected",
                          "Add original data points or product comparisons")
              ELSE f0
    IN  IF ~uniqueness.has_unique_angle
        THEN Deduct(f1, 15, "Content follows generic structure",
                    "Use unique angle (e.g., 'student perspective' vs generic advice)")
        ELSE f1

\* _simulate_content_overlap without the cap at 95
SimulateContentOverlapUncapped(generic_count, sentence_count, word_count) ==
    LET base == IF sentence_count > 0
                THEN Min((generic_count * 100) \div sentence_count, 90)
                ELSE 70
    IN  [overlap_percentage |-> IF word_count < 500 THEN base + 10 ELSE base,
         generic_phrases_found |-> generic_count]

\* _simulate_content_overlap
SimulateContentOverlap(generic_count, sentence_count, word_count) ==
    LET base == IF sentence_count > 0
                THEN Min((generic_count * 100) \div sentence_count, 90)
                ELSE 70
        overlap_percentage == IF word_count < 500 THEN base + 10 ELSE base
    IN  [overlap_percentage |-> Min(overlap_percentage, 95),
         generic_phrases_found |-> generic_count]

\* step 1: content overlap
DIFF_Overlap(f, overlap_score) ==
    LET g == [f EXCEPT !.details = Put(@, "content_overlap", overlap_score)]
    IN  IF overlap_score.overlap_percentage > 70
        THEN [Deduct(g, 30, "N% content overlap with top 3 SERP results",
                     "Add original data points or product comparisons")
                EXCEPT !.issues = Append(@, "No unique examples or data")]
        ELSE IF overlap_score.overlap_percentage > 50
        THEN Deduct(g, 20, "N% content overlap with competitors",
                    "Inject more unique perspective or original research")
        ELSE g

\* step 2 with the -10 of original data skipped when no personal example
\* was found either
DIFF_UniqueOnce(f, unique_elements) ==
    LET f0 == [f EXCEPT !.details = Put(@, "unique_elements", unique_elements)]
        f1 == IF unique_elements.personal_examples = 0
              THEN Deduct(f0, 15, "No unique examples or data",
                          "Add original data points or product comparisons")
              ELSE f0
    IN  IF unique_elements.original_data = 0 /\ unique_elements.personal_examples > 0
        THEN Deduct(f1, 10, "No original data or research",
                    "Include original data, surveys, or experiments")
        ELSE f1

\* step 2: unique elements
DIFF_Unique(f, unique_elements) ==
    LET f0 == [f EXCEPT !.details = Put(@, "unique_elements", unique_elements)]
        f1 == IF unique_elements.personal_examples = 0
              THEN Deduct(f0, 15, "No unique examples or data",
                          "Add original data points or product comparisons")
              ELSE f0
    IN  IF unique_elements.original_data = 0
        THEN IF unique_elements.personal_examples > 0
             THEN Deduct(f1, 10, "No original data or research",
                         "Include original data, surveys, or experiments")
             ELSE [f1 EXCEPT !.score = @ - 10]
        ELSE f1

\* _analyze_structure_difference with an outline that counts as unique only
\* against competitor information
AnalyzeStructureDifferenceOnSerp(has_generic_start, has_unique_format, serp_info) ==
    [has_unique_structure |->
        (~has_generic_start \/ has_unique_format) /\ serp_info # None,
     has_generic_opening |-> has_generic_start]

\* _analyze_structure_difference(text, serp_info): serp_info is not read
AnalyzeStructureDifference(has_generic_start, has_unique_format, serp_info) ==
    [has_unique_structure |-> ~has_generic_start \/ has_unique_format,
     has_generic_opening |-> has_generic_start]

\* step 3: structure
DIFF_Structure(f, structure_diff) ==
    LET g == [f EXCEPT !.details = Put(@, "structure", structure_diff)]
    IN  IF ~structure_diff.has_unique_structure
        THEN Deduct(g, 15,
                    "Same structure as competitors (all follow identical outline)",
                    "Use unique angle (e.g., 'student perspective' vs generic advice)")
        ELSE g

\* _analyze_voice_differentiation
AnalyzeVoice(casual_count, technical_count, playful_count, story_count) ==
    [has_distinct_voice |->
        casual_count + technical_count + playful_count + story_count > 5,
     dominant_voice |->
        IF casual_count > 3 THEN "casual"
        ELSE IF technical_count > 3 THEN "technical"
        ELSE IF playful_count > 2 THEN "playful"
        ELSE IF story_count > 2 THEN "story-driven"
        ELSE "generic",
     casual_score |-> casual_count,
     technical_score |-> technical_count]

\* step 4 deducting 35 for a generic voice
DIFF_VoiceDeducting35(f, voice) ==
    LET g == [f EXCEPT !.details = Put(@, "voice", voice)]
    IN  IF ~voice.has_distinct_voice
        THEN Deduct(g, 35, "Generic voice and tone",
                    "Develop stronger brand voice (casual, technical, playful, etc.)")
        ELSE g

\* step 4: voice and tone
DIFF_Voice(f, voice) ==
    LET g == [f EXCEPT !.details = Put(@, "voice", voice)]
    IN  IF ~voice.has_distinct_voice
        THEN Deduct(g, 10, "Generic voice and tone",
                    "Develop stronger brand voice (casual, technical, playful, etc.)")
        ELSE g

\* the basic branch returns the locals unfloored and untruncated
AsIs(f) ==
    [score |-> f.score, issues |-> f.issues,
     recommendations |-> f.recommendations, details |-> f.details]

\* DifferentiationAnalyzer.analyze as one function of its measurements
DIFFAnalyze(serp_data, uniqueness, overlap_score, unique_elements, structure_diff, voice) ==
    IF NoSerpData(serp_data)
    THEN AsIs(DIFF_Basic(NewFrame, uniqueness))
    ELSE FlooredTop3(
            DIFF_Voice(
                DIFF_Structure(
                    DIFF_Unique(DIFF_Overlap(NewFrame, overlap_score),
                                unique_elements),
                    structure_diff),
                voice))

---------------------------------------------------------------------------
(* The calls, check by check *)

\* a call is entered on the locals the last call left behind
EnterOnOldLocals(name, first) ==
    /\ pc = "idle"
    /\ pc' = first
    /\ call' = [analyzer |-> name]
    /\ report' = NoReport
    /\ net' = NoNet
    /\ response' = NoResponse
    /\ UNCHANGED <<score, issues, recommendations, details>>

\* a call is entered: analyzer.analyze(...) with fresh locals, or the handler
Enter(name, first) ==
    /\ pc = "idle"
    /\ pc' = first
    /\ call' = [analyzer |-> name]
    /\ SetFrame(NewFrame)
    /\ report' = NoReport
    /\ net' = NoNet
    /\ response' = NoResponse

\* one check of analyze(): from position from to position to, leaving the
\* locals as f
Check(from, to, f) ==
    /\ pc = from
    /\ pc' = to
    /\ SetFrame(f)
    /\ UNCHANGED <<report, net, response>>

\* analyze() returns r
Return(from, r) ==
    /\ pc = from
    /\ pc' = "idle"
    /\ report' = r
    /\ UNCHANGED <<call, net, response>>

(* SEOAnalyzer.analyze *)

SEOCall == Enter("seo", "seo_words")

SEOWordCount ==
    /\ pc = "seo_words"
    /\ \E word_count \in WordCounts :
           /\ Check("seo_words", "seo_keyword", SEO_WordCount(Frame, word_count))
           /\ call' = Put(call, "word_count", word_count)

SEOKeyword ==
    /\ pc = "seo_keyword"
    /\ \E target_keyword \in Keywords, count \in KeywordCounts :
           /\ target_keyword = "" => count = 0
           /\ Check("seo_keyword", "seo_readability",
                    SEO_Keyword(Frame, target_keyword, count))
           /\ call' = Put(Put(call, "target_keyword", target_keyword), "count", count)

SEOReadability ==
    /\ pc = "seo_readability"
    /\ \E flesch \in FleschScores :
           /\ Check("seo_readability", "seo_headers", SEO_Readability(Frame, flesch))
           /\ call' = Put(call, "flesch", flesch)

SEOHeaders ==
    /\ pc = "seo_headers"
    /\ \E headers \in SEOHeaderInputs :
           /\ Check("seo_headers", "seo_meta",
                    SEO_Headers(Frame, headers, call["target_keyword"]))
           /\ call' = Put(call, "headers", headers)

SEOMeta ==
    /\ pc = "seo_meta"
    /\ \E meta_len \in MetaLengths :
           /\ Check("seo_meta", "seo_length", SEO_Meta(Frame, meta_len))
           /\ call' = Put(call, "meta_len", meta_len)

SEOLength ==
    /\ Check("seo_length", "seo_return", SEO_Length(Frame))
    /\ UNCHANGED call

SEOReturn ==
    /\ Return("seo_return", FlooredTop3(Frame))
    /\ SetFrame([Frame EXCEPT !.score = Max(0, @)])

(* SERPAnalyzer.analyze *)

SERPCall == Enter("serp", "serp_keyword")

SERPNoKeyword ==
    /\ pc = "serp_keyword"
    /\ pc' = "idle"
    /\ call' = Put(call, "target_keyword", "")
    /\ report' = SERP_NoKeywordReport
    /\ UNCHANGED <<score, issues, recommendations, details, net, response>>

SERPFetch ==
    /\ pc = "serp_keyword"
    /\ \E target_keyword \in Keywords \ {""}, serp_results \in SearchResults :
           \E contents \in FetchedContents(serp_results) :
               /\ pc = "serp_keyword"
               /\ pc' = "serp_words"
               /\ SetFrame(SERP_Fetch(Frame, target_keyword, serp_results, contents))
               /\ net' = SERP_Calls(target_keyword, serp_results)
               /\ call' = Put(Put(Put(call, "target_keyword", target_keyword),
                                  "serp_results", serp_results),
                              "contents", contents)
               /\ UNCHANGED <<report, response>>

SERPWordCount ==
    /\ pc = "serp_words"
    /\ \E user_word_count \in SERPWordCounts :
           /\ Check("serp_words", "serp_topics", SERP_WordCount(Frame, user_word_count))
           /\ call' = Put(call, "user_word_count", user_word_count)

SERPTopics ==
    /\ pc = "serp_topics"
    /\ \E headers \in SERPHeaderInputs :
           /\ Check("serp_topics", "serp_elements",
                    SERP_Topics(Frame, call["target_keyword"], headers))
           /\ call' = Put(call, "headers", headers)

SERPElements ==
    /\ pc = "serp_elements"
    /\ \E elements \in ContentElements :
           /\ Check("serp_elements", "serp_fingerprint", SERP_Elements(Frame, elements))
           /\ call' = Put(call, "elements", elements)

SERPFingerprint ==
    /\ Check("serp_fingerprint", "serp_predict", SERP_Fingerprint(Frame))
    /\ UNCHANGED call

SERPPredict ==
    /\ Check("serp_predict", "serp_improve", SERP_Predict(Frame))
    /\ UNCHANGED call

SERPImprove ==
    /\ Check("serp_improve", "serp_return", SERP_Improve(Frame))
    /\ UNCHANGED call

SERPReturn ==
    /\ Return("serp_return", FlooredTop3(Frame))
    /\ SetFrame([Frame EXCEPT !.score = Max(0, @)])

(* AEOAnalyzer.analyze *)

AEOCall == Enter("aeo", "aeo_citations")

AEOCitations ==
    /\ pc = "aeo_citations"
    /\ \E urls \in UrlCounts, source_mentions \in SourceMentionCounts :
           /\ Check("aeo_citations", "aeo_structured",
                    AEO_Citations(Frame, urls, source_mentions))
           /\ call' = Put(Put(call, "urls", urls), "source_mentions", source_mentions)

AEOStructured ==
    /\ pc = "aeo_structured"
    /\ \E has_faq \in BOOLEAN, has_how_to \in BOOLEAN, markers \in ListMarkers :
           LET structured ==
                   [has_faq_pattern |-> has_faq,
                    has_lists |-> HasLists(markers.bullet_sequences, markers.dash_lines,
                                           markers.one_lines, markers.two_lines),
                    has_how_to_pattern |-> has_how_to]
           IN  /\ Check("aeo_structured", "aeo_patterns", AEO_Structured(Frame, structured))
               /\ call' = Put(Put(call, "structured", structured), "markers", markers)

AEOPatterns ==
    /\ pc = "aeo_patterns"
    /\ \E definition_count \in DefinitionCounts, has_summary \in BOOLEAN :
           /\ Check("aeo_patterns", "aeo_answers",
                    AEO_Patterns(Frame, [definition_count |-> definition_count,
                                         has_summary |-> has_summary]))
           /\ call' = Put(call, "ai_patterns", [definition_count |-> definition_count,
                                                 has_summary |-> has_summary])

AEOAnswers ==
    /\ pc = "aeo_answers"
    /\ \E direct_answers \in DirectAnswerCounts :
           /\ Check("aeo_answers", "aeo_return", AEO_Answers(Frame, direct_answers))
           /\ call' = Put(call, "direct_answers", direct_answers)

AEOReturn ==
    /\ Return("aeo_return", FlooredTop3(Frame))
    /\ SetFrame([Frame EXCEPT !.score = Max(0, @)])

(* HumanizationAnalyzer.analyze *)

HUMCall == Enter("hum", "hum_split")

\* sentences = self._split_sentences(text), and the early return
HUMSplit ==
    /\ pc = "hum_split"
    /\ \E pieces \in TextPieces :
           /\ pc = "hum_split"
           /\ call' = Put(Put(call, "pieces", pieces),
                          "sentences", SplitSentences(pieces))
           /\ IF Len(SplitSentences(pieces)) < 3
              THEN /\ pc' = "idle"
                   /\ report' = HUM_TooShortReport
              ELSE /\ pc' = "hum_starters"
                   /\ UNCHANGED report
           /\ UNCHANGED <<score, issues, recommendations, details, net, response>>

HUMStarters ==
    /\ Check("hum_starters", "hum_lengths", HUM_Starters(Frame, call["sentences"]))
    /\ UNCHANGED call

HUMLengths ==
    /\ Check("hum_lengths", "hum_ai", HUM_Lengths(Frame, call["sentences"]))
    /\ UNCHANGED call

HUMAIPatterns ==
    /\ pc = "hum_ai"
    /\ \E has_delve \in BOOLEAN, formulaic_count \in FormulaicCounts,
          adverb_count \in AdverbCounts, has_fragments \in BOOLEAN,
          has_informal \in BOOLEAN :
           /\ Check("hum_ai", "hum_transitions",
                    HUM_AIPatterns(Frame,
                       [has_delve |-> has_delve, formulaic_count |-> formulaic_count,
                        adverb_count |-> adverb_count, has_fragments |-> has_fragments,
                        has_informal |-> has_informal],
                       TextWords(call["pieces"]), call["sentences"]))
           /\ call' = Put(call, "m",
                       [has_delve |-> has_delve, formulaic_count |-> formulaic_count,
                        adverb_count |-> adverb_count, has_fragments |-> has_fragments,
                        has_informal |-> has_informal])

HUMTransitions ==
    /\ pc = "hum_transitions"
    /\ \E transition_count \in TransitionCounts :
           /\ Check("hum_transitions", "hum_flow",
                    HUM_Transitions(Frame, transition_count, call["sentences"]))
           /\ call' = Put(call, "transition_count", transition_count)

HUMFlow ==
    /\ pc = "hum_flow"
    /\ \E has_contractions \in BOOLEAN, has_questions \in BOOLEAN :
           /\ Check("hum_flow", "hum_return",
                    HUM_Flow(Frame, [has_contractions |-> has_contractions,
                                     has_questions |-> has_questions]))
           /\ call' = Put(call, "flow", [has_contractions |-> has_contractions,
                                          has_questions |-> has_questions])

HUMReturn ==
    /\ Return("hum_return", FlooredTop3(Frame))
    /\ SetFrame([Frame EXCEPT !.score = Max(0, @)])

(* DifferentiationAnalyzer.analyze *)

DIFFCall == Enter("diff", "diff_branch")

\* the basic branch: the check and the return
DIFFBasic ==
    /\ pc = "diff_branch"
    /\ \E serp_data \in SerpArguments, phrases \in SUBSET SamplePhrases :
           LET f == DIFF_Basic(Frame, AnalyzeBasicUniqueness(phrases))
           IN  /\ NoSerpData(serp_data)
               /\ pc = "diff_branch"
               /\ pc' = "idle"
               /\ call' = Put(Put(call, "serp_data", serp_data), "phrases", phrases)
               /\ SetFrame(f)
               /\ report' = AsIs(f)
               /\ UNCHANGED <<net, response>>

DIFFOverlap ==
    /\ pc = "diff_branch"
    /\ \E serp_data \in SerpArguments, generic_count \in GenericCounts,
          sentence_count \in SplitCounts, word_count \in WordCounts :
           /\ ~NoSerpData(serp_data)
           \* a text without words is one piece without phrases
           /\ word_count = 0 => generic_count = 0 /\ sentence_count = 1
           /\ Check("diff_branch", "diff_unique",
                    DIFF_Overlap(Frame,
                       SimulateContentOverlap(generic_count, sentence_count, word_count)))
           /\ call' = Put(Put(Put(Put(call, "serp_data", serp_data),
                                      "word_count", word_count),
                                  "sentence_count", sentence_count),
                          "overlap_score",
                          SimulateContentOverlap(generic_count, sentence_count, word_count))

DIFFUnique ==
    /\ pc = "diff_unique"
    /\ \E personal_examples \in PersonalCounts, original_data \in OriginalDataCounts :
           /\ call["word_count"] = 0 => personal_examples = 0 /\ original_data = 0
           /\ Check("diff_unique", "diff_structure",
                    DIFF_Unique(Frame, [personal_examples |-> personal_examples,
                                        original_data |-> original_data]))
           /\ call' = Put(call, "unique_elements",
                           [personal_examples |-> personal_examples,
                            original_data |-> original_data])

DIFFStructure ==
    /\ pc = "diff_structure"
    /\ \E has_generic_start \in BOOLEAN, has_unique_format \in BOOLEAN :
           /\ call["word_count"] = 0 => ~has_generic_start /\ ~has_unique_format
           /\ Check("diff_structure", "diff_voice",
                    DIFF_Structure(Frame,
                       AnalyzeStructureDifference(has_generic_start, has_unique_format,
                                                  call["serp_data"]["serp_data"])))
           /\ call' = Put(Put(call, "structure_text",
                              [has_generic_start |-> has_generic_start,
                               has_unique_format |-> has_unique_format]),
                          "structure_diff",
                          AnalyzeStructureDifference(has_generic_start, has_unique_format,
                                                     call["serp_data"]["serp_data"]))

DIFFVoice ==
    /\ pc = "diff_voice"
    /\ \E casual_count \in CasualCounts, technical_count \in TechnicalCounts,
          playful_count \in PlayfulCounts, story_count \in StoryCounts :
           /\ call["word_count"] = 0 =>
                casual_count + technical_count + playful_count + story_count = 0
           /\ Check("diff_voice", "diff_return",
                    DIFF_Voice(Frame, AnalyzeVoice(casual_count, technical_count,
                                                   playful_count, story_count)))
           /\ call' = Put(call, "voice", AnalyzeVoice(casual_count, technical_count,
                                                      playful_count, story_count))

DIFFReturn ==
    /\ Return("diff_return", FlooredTop3(Frame))
    /\ SetFrame([Frame EXCEPT !.score = Max(0, @)])

---------------------------------------------------------------------------
(* /api/analyze: the aggregator *)

ScoresOf(all_results) == [i \in 1..Len(all_results) |-> all_results[i].score]

\* sum(scores)
Sum(scores) == SumOf(scores, LAMBDA x : x)

\* round(n / d), in tenths: the nearest integer
RoundUnits(n, d) == 10 * ((2 * n + d) \div (2 * d))

\* round(n / d, 1), in tenths: the nearest tenth, the even one on a tie
RoundTenths(n, d) ==
    LET q == (10 * n) \div d
        r == (10 * n) % d
    IN  IF 2 * r > d \/ (2 * r = d /\ q % 2 = 1) THEN q + 1 ELSE q

\* 'overall_score': round(sum(scores) / len(scores), 1), in tenths
OverallScore(scores) == RoundTenths(Sum(scores), Len(scores))

\* serp_results['details'].get('ranking_prediction', {}).get('current_position', 20)
CurrentRank(serp_results) ==
    IF Has(serp_results.details, "ranking_prediction")
    THEN serp_results.details["ranking_prediction"].current_position
    ELSE 20

\* round(current_rank * 0.4), round(current_rank * 0.6): no product ends in .5
Rounded(current_rank, tenths) == (current_rank * tenths + 5) \div 10

\* int(current_rank * 0.4), int(current_rank * 0.6)
Scaled(current_rank, tenths) == (current_rank * tenths) \div 10

\* the improved rank with a floor of 5
ImprovedRankFrom5(current_rank, scores) ==
    IF Sum(scores) < 70 * Len(scores)
    THEN Max(5, Scaled(current_rank, 4))
    ELSE Max(5, Scaled(current_rank, 6))

\* max(3, int(current_rank * 0.4)) if overall_score < 70
\* else max(3, int(current_rank * 0.6))
ImprovedRank(current_rank, scores) ==
    IF Sum(scores) < 70 * Len(scores)
    THEN Max(3, Scaled(current_rank, 4))
    ELSE Max(3, Scaled(current_rank, 6))

RankPrediction(serp_results, scores) ==
    LET current_rank == CurrentRank(serp_results)
        improved_rank == ImprovedRank(current_rank, scores)
    IN  [current_estimated_rank |-> current_rank,
         improved_estimated_rank |-> improved_rank,
         improvement |-> current_rank - improved_rank]

\* all_recommendations drawn in rounds: the first recommendation of every
\* result, then the second of every result
AllRecommendationsInRounds(all_results) ==
    LET A[i \in 0..(2 * Len(all_results))] ==
            IF i = 0 THEN <<>>
            ELSE LET n == ((i - 1) % Len(all_results)) + 1
                     j == ((i - 1) \div Len(all_results)) + 1
                 IN  IF j <= Len(all_results[n].recommendations)
                     THEN Append(A[i - 1], all_results[n].recommendations[j])
                     ELSE A[i - 1]
    IN  A[2 * Len(all_results)]

\* all_recommendations: result['recommendations'][:2] of every result
AllRecommendations(all_results) ==
    LET A[i \in 0..Len(all_results)] ==
            IF i = 0 THEN <<>>
            ELSE A[i - 1] \o Take(all_results[i].recommendations, 2)
    IN  A[Len(all_results)]

\* unique_recs without the membership test
AllRecs(all_recommendations) == all_recommendations

\* unique_recs: the first occurrence of every recommendation
UniqueRecs(all_recommendations) ==
    LET U[i \in 0..Len(all_recommendations)] ==
            IF i = 0 THEN <<>>
            ELSE LET unique_recs == U[i - 1]
                     rec == all_recommendations[i]
                 IN  IF \E j \in 1..Len(unique_recs) : unique_recs[j] = rec
                     THEN unique_recs
                     ELSE Append(unique_recs, rec)
    IN  U[Len(all_recommendations)]

\* _get_top_recommendations
GetTopRecommendations(all_results) ==
    Take(UniqueRecs(AllRecommendations(all_results)), 5)

\* the response of /api/analyze, from the five reports in the order
\* seo, serp, aeo, humanization, differentiation
Compile(all_results) ==
    LET scores == ScoresOf(all_results)
    IN  [status |-> 200,
         overall_score |-> OverallScore(scores),
         scores |-> all_results,
         rank_prediction |-> RankPrediction(all_results[2], scores),
         top_recommendations |-> GetTopRecommendations(all_results)]

ErrorResponse(status, error) == [status |-> status, error |-> error]

---------------------------------------------------------------------------
(* /api/analyze: the handler *)

\* the sentences of the sample documents, their words scaled by s
ScaledPieces(n, k, p, s) ==
    LET pieces == MkPieces(n, k, p, FALSE)
    IN  [i \in 1..Len(pieces) |-> [pieces[i] EXCEPT !.words = @ * s]]

DocumentPieces ==
    {ScaledPieces(0, 1, 1, 1), ScaledPieces(2, 1, 1, 1), ScaledPieces(6, 1, 1, 10),
     ScaledPieces(11, 4, 2, 12), ScaledPieces(11, 4, 3, 20)}

\* what the analyzers measure on a sample document: a poor (q = 1), a fair
\* (q = 2) and a rich (q = 3) text on the given sentences
Document(pieces, q) ==
    [pieces |-> pieces,
     word_count |-> TextWords(pieces),
     keyword_count |-> <<0, 5, 40>>[q],
     flesch |-> <<25, 40, 75>>[q],
     elements |-> [stats_count |-> <<0, 1, 3>>[q],
                   examples_count |-> <<0, 0, 2>>[q],
                   has_comparison |-> q = 3],
     urls |-> <<0, 1, 3>>[q],
     source_mentions |-> <<0, 2, 2>>[q],
     structured |-> [has_faq_pattern |-> q > 1,
                     has_lists |-> HasLists(<<0, 2, 3>>[q], 0, 0, 0),
                     has_how_to_pattern |-> q = 3],
     ai_patterns |-> [definition_count |-> <<0, 1, 2>>[q], has_summary |-> q = 3],
     direct_answers |-> <<0, 2, 3>>[q],
     m |-> [has_delve |-> q = 1, formulaic_count |-> <<3, 2, 0>>[q],
            adverb_count |-> <<9, 1, 0>>[q], has_fragments |-> q = 3,
            has_informal |-> q > 1],
     transition_count |-> <<5, 1, 0>>[q],
     flow |-> [has_contractions |-> q > 1, has_questions |-> q = 3],
     uniqueness |-> AnalyzeBasicUniqueness(
                        <<{}, {"In my experience"}, {"we tested", "Student"}>>[q]),
     generic_count |-> <<12, 2, 0>>[q],
     unique_elements |-> [personal_examples |-> <<0, 2, 2>>[q],
                          original_data |-> <<0, 0, 1>>[q]],
     structure_text |-> [has_generic_start |-> q = 1, has_unique_format |-> q = 3],
     voice |-> AnalyzeVoice(<<0, 0, 4>>[q], <<0, 4, 4>>[q], 0, <<0, 0, 3>>[q])]

Documents == {Document(pieces, q) : pieces \in DocumentPieces, q \in 1..3}

\* the header tags of the sample pages, and their meta description lengths
PageHeaders ==
    {MkHeaders(0, 0, 0, FALSE), MkHeaders(0, 2, 1, FALSE),
     MkHeaders(1, 2, 2, TRUE), MkHeaders(1, 4, 4, FALSE)}

\* the request body: raw text, or the URL of a page
Inputs ==
    {[kind |-> "empty"]}
    \cup {[kind |-> "text", document |-> d] : d \in Documents}
    \cup {[kind |-> "url", document |-> d, headers |-> hs, meta_len |-> ml] :
            d \in Documents, hs \in PageHeaders, ml \in {0, 140}}

\* the URL branch of the handler: the texts of the h1, h2, h3 tags
URLBranchContent(page) ==
    [text |-> page.document,
     headers |-> [i \in 1..Len(page.headers) |-> Str(page.headers[i].text)],
     meta_len |-> page.meta_len]

\* TextExtractor._extract_from_url
ExtractFromURL(page) ==
    [text |-> page.document, headers |-> page.headers, meta_len |-> page.meta_len]

\* TextExtractor._extract_from_text
ExtractFromText(input) ==
    [text |-> input.document, headers |-> <<>>, meta_len |-> 0]

\* the analyzer calls of the handler on content_data
CallSEO(content_data, target_keyword) ==
    SEOAnalyze(content_data.text.word_count, target_keyword,
               IF target_keyword = "" THEN 0 ELSE content_data.text.keyword_count,
               content_data.text.flesch, content_data.headers, content_data.meta_len)

CallSERP(content_data, target_keyword, serp_results, contents) ==
    SERPAnalyze(content_data.text.word_count, target_keyword, content_data.headers,
                content_data.text.elements, serp_results, contents)

CallAEO(content_data) ==
    AEOAnalyze(content_data.text.urls, content_data.text.source_mentions,
               content_data.text.structured, content_data.text.ai_patterns,
               content_data.text.direct_answers)

CallHUM(content_data) ==
    HUMAnalyze(content_data.text.pieces, content_data.text.m,
               content_data.text.transition_count, content_data.text.flow)

CallDIFF(content_data, serp_data) ==
    DIFFAnalyze(serp_data, content_data.text.uniqueness,
                SimulateContentOverlap(content_data.text.generic_count,
                                       Len(content_data.text.pieces),
                                       content_data.text.word_count),
                content_data.text.unique_elements,
                AnalyzeStructureDifference(
                    content_data.text.structure_text.has_generic_start,
                    content_data.text.structure_text.has_unique_format,
                    IF NoSerpData(serp_data) THEN None ELSE serp_data["serp_data"]),
                content_data.text.voice)

\* a handler step that leaves the analyzers' locals alone
APIStep(from, to) ==
    /\ pc = from
    /\ pc' = to
    /\ UNCHANGED <<score, issues, recommendations, details, report>>

\* the handler answers
APIRespond(from, r) ==
    /\ APIStep(from, "idle")
    /\ response' = r

\* POST /api/analyze arrives
APICall == Enter("api", "api_request")

\* the request has no input
APINoInput ==
    /\ APIRespond("api_request", ErrorResponse(400, "No input provided"))
    /\ call' = Put(call, "input", [kind |-> "empty"])
    /\ UNCHANGED net

\* the request has input
APIRead ==
    /\ pc = "api_request"
    /\ \E input \in Inputs \ {[kind |-> "empty"]}, target_keyword \in Keywords,
          is_url \in BOOLEAN :
           /\ APIStep("api_request", "api_extract")
           /\ call' = [analyzer |-> "api", input |-> input,
                       target_keyword |-> target_keyword, is_url |-> is_url]
           /\ UNCHANGED <<net, response>>

\* is_url: requests.get and the parse raise
APIFetchFails ==
    /\ pc = "api_extract"
    /\ call["is_url"]
    /\ APIRespond("api_extract", ErrorResponse(400, "Failed to fetch URL"))
    /\ UNCHANGED <<call, net>>

\* extractor.extract on a URL raises
APIExtractFails ==
    /\ pc = "api_extract"
    /\ ~call["is_url"]
    /\ call["input"].kind = "url"
    /\ APIRespond("api_extract", ErrorResponse(500, "Failed to extract content from URL"))
    /\ UNCHANGED <<call, net>>

\* content_data is built and its text checked
APIExtract ==
    /\ pc = "api_extract"
    /\ call["is_url"] => call["input"].kind = "url"
    /\ LET content_data ==
               IF call["is_url"] THEN URLBranchContent(call["input"])
               ELSE IF call["input"].kind = "url" THEN ExtractFromURL(call["input"])
               ELSE ExtractFromText(call["input"])
       IN  IF content_data.text.word_count = 0
           THEN /\ APIRespond("api_extract",
                              ErrorResponse(400, "Could not extract text from input"))
                /\ UNCHANGED call
           ELSE /\ APIStep("api_extract", "api_seo")
                /\ call' = Put(call, "content_data", content_data)
                /\ UNCHANGED response
    /\ UNCHANGED net

APISEO ==
    /\ APIStep("api_seo", "api_serp")
    /\ call' = Put(call, "seo_results",
                   CallSEO(call["content_data"], call["target_keyword"]))
    /\ UNCHANGED <<net, response>>

APISERP ==
    /\ pc = "api_serp"
    /\ \E serp_results \in SearchResults :
           \E contents \in FetchedContents(serp_results) :
               /\ APIStep("api_serp", "api_aeo")
               /\ call["target_keyword"] = "" => serp_results = <<>>
               /\ call' = Put(call, "serp_results",
                              CallSERP(call["content_data"], call["target_keyword"],
                                       serp_results, contents))
               /\ net' = SERP_Calls(call["target_keyword"], serp_results)
               /\ UNCHANGED response

APIAEO ==
    /\ APIStep("api_aeo", "api_hum")
    /\ call' = Put(call, "aeo_results", CallAEO(call["content_data"]))
    /\ UNCHANGED <<net, response>>

APIHUM ==
    /\ APIStep("api_hum", "api_diff")
    /\ call' = Put(call, "humanization_results", CallHUM(call["content_data"]))
    /\ UNCHANGED <<net, response>>

APIDIFF ==
    /\ APIStep("api_diff", "api_compile")
    /\ call' = Put(call, "differentiation_results",
                   CallDIFF(call["content_data"], call["serp_results"].details))
    /\ UNCHANGED <<net, response>>

APICompile ==
    /\ APIRespond("api_compile",
                  Compile(<<call["seo_results"], call["serp_results"],
                            call["aeo_results"], call["humanization_results"],
                            call["differentiation_results"]>>))
    /\ UNCHANGED <<call, net>>

---------------------------------------------------------------------------
(* The aggregator on synthetic reports *)

ScoreSamples == <<80, 60, 90, 70, 100, 77>>
PositionSamples == <<6, 8, 11, 22, 27, 3, 10, 15, 20, 35, 40>>
RecNames ==
    <<<<"seo 1", "seo 2", "seo 3">>, <<"serp 1", "serp 2", "serp 3">>,
      <<"aeo 1", "aeo 2", "aeo 3">>, <<"hum 1", "hum 2", "hum 3">>,
      <<"diff 1", "diff 2", "diff 3">>>>

\* the k-th recommendation list of analyzer i: empty, one, two or three
\* entries, an entry twice, an entry that other analyzers give too
RecSample(i, k) ==
    LET r == RecNames[i]
    IN  <<<<>>, <<r[1]>>, <<r[1], r[2]>>, <<r[1], r[2], r[3]>>, <<r[1], r[1], r[2]>>,
          <<"shared", r[1]>>, <<r[1], "shared", r[3]>>>>[((k - 1) % 7) + 1]

\* the details of the k-th SERP report: without a keyword, or with a prediction
DetailsSample(k) ==
    IF k > Len(PositionSamples) THEN [serp_data |-> None]
    ELSE [ranking_prediction |->
            [current_position |-> PositionSamples[k],
             current_page |-> ((PositionSamples[k] - 1) \div 10) + 1]]

ReportSample(i, k) ==
    [score |-> ScoreSamples[((k + i) % Len(ScoreSamples)) + 1],
     issues |-> <<>>,
     recommendations |-> RecSample(i, k + 2 * i),
     details |-> IF i = 2 THEN DetailsSample(k) ELSE EmptyDict]

ReportSamples(i) ==
    {ReportSample(i, k) :
        k \in 1..(IF i = 2 THEN Len(PositionSamples) + 1 ELSE Len(ScoreSamples))}

AggregateCall == Enter("aggregate", "aggregate")

Aggregate ==
    /\ pc = "aggregate"
    /\ \E seo \in ReportSamples(1), serp \in ReportSamples(2), aeo \in ReportSamples(3),
          hum \in ReportSamples(4), diff \in ReportSamples(5) :
           /\ pc = "aggregate"
           /\ pc' = "idle"
           /\ call' = Put(call, "all_results", <<seo, serp, aeo, hum, diff>>)
           /\ response' = Compile(<<seo, serp, aeo, hum, diff>>)
           /\ UNCHANGED <<score, issues, recommendations, details, report, net>>

---------------------------------------------------------------------------
(* Specification *)

Init ==
    /\ pc = "idle"
    /\ call = [analyzer |-> "none"]
    /\ score = 100
    /\ issues = <<>>
    /\ recommendations = <<>>
    /\ details = EmptyDict
    /\ report = NoReport
    /\ net = NoNet
    /\ response = NoResponse

SEONext ==
    \/ SEOCall \/ SEOWordCount \/ SEOKeyword \/ SEOReadability \/ SEOHeaders
    \/ SEOMeta \/ SEOLength \/ SEOReturn

SERPNext ==
    \/ SERPCall \/ SERPNoKeyword \/ SERPFetch \/ SERPWordCount \/ SERPTopics
    \/ SERPElements \/ SERPFingerprint \/ SERPPredict \/ SERPImprove
    \/ SERPReturn

AEONext ==
    \/ AEOCall \/ AEOCitations \/ AEOStructured \/ AEOPatterns \/ AEOAnswers
    \/ AEOReturn

HUMNext ==
    \/ HUMCall \/ HUMSplit \/ HUMStarters \/ HUMLengths \/ HUMAIPatterns
    \/ HUMTransitions \/ HUMFlow \/ HUMReturn

DIFFNext ==
    \/ DIFFCall \/ DIFFBasic \/ DIFFOverlap \/ DIFFUnique \/ DIFFStructure
    \/ DIFFVoice \/ DIFFReturn

APINext ==
    \/ APICall \/ APINoInput \/ APIRead \/ APIFetchFails \/ APIExtractFails \/ APIExtract
    \/ APISEO \/ APISERP \/ APIAEO \/ APIHUM \/ APIDIFF \/ APICompile

AggregateNext == AggregateCall \/ Aggregate

Next ==
    \/ SEONext \/ SERPNext \/ AEONext \/ HUMNext \/ DIFFNext \/ APINext
    \/ AggregateNext

Spec == Init /\ [][Next]_vars
SpecSEO == Init /\ [][SEONext]_vars
SpecSERP == Init /\ [][SERPNext]_vars
SpecAEO == Init /\ [][AEONext]_vars
SpecHUM == Init /\ [][HUMNext]_vars
SpecDIFF == Init /\ [][DIFFNext]_vars
SpecAPI == Init /\ [][APINext]_vars
SpecAggregate == Init /\ [][AggregateNext]_vars

---------------------------------------------------------------------------
(* Properties *)

\* an analyzer's analyze() has returned
Returned(name) == pc = "idle" /\ call["analyzer"] = name /\ report # NoReport

\* the handler has answered 200
Answered == pc = "idle" /\ response.status = 200

\* the reports a state holds: the one analyze() returned, the five of a response
ReportsHeld ==
    (IF report # NoReport THEN {report} ELSE {})
    \cup (IF response.status = 200
          THEN {response.scores[i] : i \in 1..Len(response.scores)}
          ELSE {})

\* C1: the score of every report an analyzer returns, called alone or by the
\* handler, is an integer from 0 to 100
C1_ScoreInRange ==
    call["analyzer"] # "aggregate" => \A r \in ReportsHeld : r.score \in 0..100

\* C1 witness: analyze() returns 0 for a running score below 0
C1_Witness == \E name \in {"seo", "aeo", "diff"} : Returned(name) /\ report.score = 0

\* C2: SERPAnalyzer.analyze with an empty target_keyword returns score 50, one
\* issue, one recommendation and details.serp_data = None, and the scraper has
\* not been called
C2_NoKeyword ==
    /\ (Returned("serp") /\ call["target_keyword"] = "") =>
            /\ report.score = 50
            /\ Len(report.issues) = 1
            /\ Len(report.recommendations) = 1
            /\ Has(report.details, "serp_data")
            /\ report.details["serp_data"] = None
            /\ net = NoNet
    /\ (call["analyzer"] = "api" /\ Has(call, "serp_results")
           /\ call["target_keyword"] = "") =>
            /\ call["serp_results"].score = 50
            /\ Len(call["serp_results"].issues) = 1
            /\ Len(call["serp_results"].recommendations) = 1
            /\ Has(call["serp_results"].details, "serp_data")
            /\ call["serp_results"].details["serp_data"] = None
            /\ net = NoNet

\* C2 witness: analyze() has returned on an empty keyword
C2_Witness == Returned("serp") /\ call["target_keyword"] = ""

\* the sentences of more than 10 characters of a text
LongSentences(pieces) == {i \in 1..Len(pieces) : pieces[i].chars > 10}

\* C3: HumanizationAnalyzer.analyze returns score 50 with a single issue and
\* empty details for every text with fewer than 3 sentences of more than 10
\* characters
C3_TooShort ==
    (Returned("hum") /\ Cardinality(LongSentences(call["pieces"])) < 3) =>
        /\ report.score = 50
        /\ Len(report.issues) = 1
        /\ report.details = EmptyDict

\* C3 witness: a text of two sentences and a piece of 10 characters
C3_Witness ==
    /\ Returned("hum")
    /\ Cardinality(LongSentences(call["pieces"])) = 2
    /\ Len(call["pieces"]) = 4

\* the five scores of the response, and their sum
Scores == [i \in 1..5 |-> response.scores[i].score]
ScoreSum == Scores[1] + Scores[2] + Scores[3] + Scores[4] + Scores[5]

\* C4: overall_score is the exact mean of the five scores to one decimal (in
\* tenths: five times overall_score is ten times the sum of the scores), and
\* the scores 80, 60, 90, 70, 100 give 80.0
C4_OverallMean ==
    Answered =>
        /\ 5 * response.overall_score = 10 * ScoreSum
        /\ Scores = <<80, 60, 90, 70, 100>> => response.overall_score = 800

\* C4 witness: the response on the scores 80, 60, 90, 70, 100
C4_Witness ==
    Answered /\ Scores = <<80, 60, 90, 70, 100>> /\ response.overall_score = 800

\* the offers <<i, j>>: the j-th of the first two recommendations of the i-th
\* report of the response
Top == response.top_recommendations
Offers ==
    {p \in (1..5) \X (1..2) : p[2] <= Len(response.scores[p[1]].recommendations)}
RecAt(p) == response.scores[p[1]].recommendations[p[2]]
Before(p, q) == p[1] < q[1] \/ (p[1] = q[1] /\ p[2] < q[2])

\* the offers that no earlier offer makes already
FirstOffers == {p \in Offers : \A q \in Offers : RecAt(q) = RecAt(p) => ~Before(q, p)}

\* the offer an entry of top_recommendations comes from
Src(k) == CHOOSE p \in FirstOffers : RecAt(p) = Top[k]

\* C5: top_recommendations has at most 5 entries; each is one of the first 2
\* recommendations of a report; none occurs twice; they stand in the order
\* SEO, SERP, AEO, Humanization, Differentiation of the reports they come
\* from, at most 2 from one report; a recommendation is left out only as a
\* duplicate of an earlier one or beyond the fifth entry
C5_TopRecommendations ==
    Answered =>
        \A first \in {FirstOffers}, top \in {Top} :
            /\ Len(top) <= 5
            /\ \A k \in 1..Len(top) : \E p \in first : RecAt(p) = top[k]
            /\ \A k, l \in 1..Len(top) : k # l => top[k] # top[l]
            /\ \A k \in 1..(Len(top) - 1) : \A p \in first :
                    RecAt(p) = top[k] =>
                        \A q \in first : RecAt(q) = top[k + 1] => Before(p, q)
            /\ \A i \in 1..5 :
                    Cardinality({k \in 1..Len(top) :
                                    \E p \in first : p[1] = i /\ RecAt(p) = top[k]}) <= 2
            /\ \A p \in first :
                \/ \E k \in 1..Len(top) : top[k] = RecAt(p)
                \/ /\ Len(top) = 5
                   /\ \A q \in first : RecAt(q) = top[5] => Before(q, p)

\* C5 witness: a duplicate was dropped and the list was cut at 5
C5_Witness ==
    /\ Answered
    /\ FirstOffers # Offers
    /\ Cardinality(FirstOffers) > 5
    /\ Len(Top) = 5

\* the first two recommendations of the reports are pairwise distinct
DistinctOffers == FirstOffers = Offers

\* C6 as stated: the first recommendation of every report is taken before the
\* second of any, so when every report has a recommendation (pairwise
\* distinct) each of the five contributes an entry
C6_RoundRobin ==
    (Answered /\ DistinctOffers /\ \A i \in 1..5 : <<i, 1>> \in Offers) =>
        \A i \in 1..5 : \E k \in 1..Len(Top) : Top[k] = RecAt(<<i, 1>>)

\* C6 amended: the first two recommendations of a report are both taken
\* before the first of any later report, so when SEO, SERP and AEO have two
\* recommendations each (pairwise distinct) the entries are SEO's two, SERP's
\* two and AEO's first, and Humanization and Differentiation contribute none
C6_ReportByReport ==
    (Answered /\ DistinctOffers) =>
        /\ \A p, q \in Offers :
            (p[1] < q[1] /\ \E l \in 1..Len(Top) : Top[l] = RecAt(q)) =>
                \E k \in 1..Len(Top) :
                    /\ Top[k] = RecAt(p)
                    /\ \A l \in 1..Len(Top) : Top[l] = RecAt(q) => k < l
        /\ (\A i \in 1..3 : <<i, 2>> \in Offers) =>
                /\ Top = <<RecAt(<<1, 1>>), RecAt(<<1, 2>>), RecAt(<<2, 1>>),
                           RecAt(<<2, 2>>), RecAt(<<3, 1>>)>>
                /\ \A k \in 1..Len(Top) : Src(k)[1] <= 3

\* C6 witness: five reports with two recommendations each, pairwise distinct
C6_Witness ==
    /\ Answered
    /\ DistinctOffers
    /\ Cardinality(Offers) = 10
    /\ Top = <<RecAt(<<1, 1>>), RecAt(<<1, 2>>), RecAt(<<2, 1>>), RecAt(<<2, 2>>),
               RecAt(<<3, 1>>)>>

\* the rank prediction of the response
CurrentEstimate == response.rank_prediction.current_estimated_rank
ImprovedEstimate == response.rank_prediction.improved_estimated_rank
Factor == IF response.overall_score < 700 THEN 4 ELSE 6
PositionOrDefault ==
    IF Has(response.scores[2].details, "ranking_prediction")
    THEN response.scores[2].details["ranking_prediction"].current_position
    ELSE 20

\* C7 as stated: current is the SERP report's current_position (20 without
\* one) and improved is max(3, round(current x 0.4)) when overall_score < 70,
\* max(3, round(current x 0.6)) otherwise
C7_Rounded ==
    Answered =>
        /\ CurrentEstimate = PositionOrDefault
        /\ ImprovedEstimate = Max(3, (Factor * CurrentEstimate + 5) \div 10)

\* C7 amended: improved is max(3, current x 0.4 rounded down) when
\* overall_score < 70 and max(3, current x 0.6 rounded down) otherwise: it is
\* at least 3, it is 3 or at most the product, and the next integer is above
\* the product
C7_RoundedDown ==
    Answered =>
        /\ CurrentEstimate = PositionOrDefault
        /\ ImprovedEstimate >= 3
        /\ ImprovedEstimate = 3 \/ 10 * ImprovedEstimate <= Factor * CurrentEstimate
        /\ 10 * (ImprovedEstimate + 1) > Factor * CurrentEstimate

\* C7 witness: the handler answers with position 27 below 70: 10, not 11
C7_Witness ==
    /\ Answered
    /\ call["analyzer"] = "api"
    /\ response.overall_score < 700
    /\ CurrentEstimate = 27
    /\ ImprovedEstimate = 10

\* the position of the tiers for score s and word-count ratio num / den
TierPosition(s, num, den) ==
    CASE s >= 85 /\ 10 * num >= 9 * den -> 3
      [] s >= 75 /\ 10 * num >= 8 * den /\ ~(s >= 85 /\ 10 * num >= 9 * den) -> 6
      [] s >= 65 /\ ~(s >= 75 /\ 10 * num >= 8 * den) -> 10
      [] s >= 55 /\ s < 65 -> 15
      [] s >= 45 /\ s < 55 -> 22
      [] s < 45 -> 35

\* the ceiling of position / 10
IsCeilingOfTenth(page, position) == 10 * (page - 1) < position /\ position <= 10 * page

\* C8: the predicted position is that of the first matching tier for the
\* running score and the ratio user words / average words (0 when the
\* average is 0), plus 5 when the user's topics are below 0.7 x avg_topics,
\* and current_page is the ceiling of position / 10; the prediction with
\* improvements is the tier of min(score + 30, 95) at ratio 0.95 without the
\* topic penalty, so that score 85 at ratio 0.95 gives position 3
C8_PredictRanking ==
    (call["analyzer"] = "serp" /\ pc \in {"serp_improve", "serp_return"}) =>
        LET wc == details["word_count_comparison"]
            tc == details["topic_coverage"]
            prediction == details["ranking_prediction"]
            num == IF wc.serp_avg > 0 THEN wc.user ELSE 0
            den == IF wc.serp_avg > 0 THEN wc.serp_avg ELSE 1
            penalty == IF 10 * tc.user < 7 * tc.serp_avg THEN 5 ELSE 0
        IN  /\ prediction.current_position = TierPosition(score, num, den) + penalty
            /\ IsCeilingOfTenth(prediction.current_page, prediction.current_position)
            /\ (score = 85 /\ 100 * num = 95 * den /\ penalty = 0) =>
                    prediction.current_position = 3
            /\ (pc = "serp_return" /\ score < 80) =>
                    /\ Has(prediction, "with_improvements")
                    /\ prediction["with_improvements"].current_position =
                            TierPosition(Min(score + 30, 95), 95, 100)
                    /\ score = 55 => prediction["with_improvements"].current_position = 3

\* C8 witness: score 85 at ratio 0.95 with enough topics is predicted position 3
C8_Witness ==
    /\ call["analyzer"] = "serp"
    /\ pc = "serp_improve"
    /\ score = 85
    /\ 100 * details["word_count_comparison"].user
            = 95 * details["word_count_comparison"].serp_avg
    /\ 10 * details["topic_coverage"].user >= 7 * details["topic_coverage"].serp_avg
    /\ details["ranking_prediction"].current_position = 3
    /\ details["ranking_prediction"].current_page = 1

\* the fetched pages with word_count > 0
Usable(contents) == {i \in 1..Len(contents) : contents[i].word_count > 0}

\* C9 as stated: whenever fewer than 3 competitor pages are usable (fewer
\* than 3 search results, or fewer than 3 fetched pages with word_count > 0)
\* details.serp_data is the fixed fallback aggregate and details.note is set
C9_FallbackBelow3Usable ==
    (call["analyzer"] = "serp" /\ Has(call, "contents")
        /\ (Len(call["serp_results"]) < 3
            \/ Cardinality(Usable(call["contents"])) < 3)) =>
        /\ details["serp_data"] =
                [avg_word_count |-> 2500, avg_topics |-> 8,
                 patterns |-> [has_stats |-> 75, has_examples |-> 70,
                               has_comparisons |-> 60, has_lists |-> 85,
                               avg_stats |-> 6]]
        /\ Has(details, "note")

\* a header of the list is not a {level, text} record
NotRecords(headers) == \E i \in 1..Len(headers) : headers[i].kind # "dict"

IsIn(x, s) == \E i \in 1..Len(s) : s[i] = x

\* the issues of SEOAnalyzer for headers that count as none
OnlyNoHeaders(seo_issues) ==
    /\ IsIn("No header structure detected", seo_issues)
    /\ ~IsIn("No H1 header found", seo_issues)
    /\ ~IsIn("Header hierarchy is incomplete (missing H2 or H3)", seo_issues)
    /\ ~IsIn("Target keyword not found in any headers", seo_issues)

\* C10 as stated: headers that are not {level, text} records, such as the
\* strings of the handler's URL branch, count as an empty sequence:
\* SEOAnalyzer makes the flat 'no headers' deduction only and SERPAnalyzer
\* counts 0 user topics
C10_StringsAsEmpty ==
    /\ (call["analyzer"] = "seo" /\ Has(call, "headers")
            /\ NotRecords(call["headers"])) => OnlyNoHeaders(issues)
    /\ (call["analyzer"] = "serp" /\ Has(call, "headers")
            /\ NotRecords(call["headers"])) => details["topic_coverage"].user = 0
    /\ (call["analyzer"] = "api" /\ Has(call, "seo_results")
            /\ NotRecords(call["content_data"].headers)) =>
                OnlyNoHeaders(call["seo_results"].issues)
    /\ (call["analyzer"] = "api" /\ Has(call, "serp_results")
            /\ call["target_keyword"] # ""
            /\ NotRecords(call["content_data"].headers)) =>
                call["serp_results"].details["topic_coverage"].user = 0

\* an issue text mentions "too short" / "header"
MentionsTooShort(issue) ==
    issue \in {"Content is too short (N words). Aim for 800-2000 words",
               "Content too short: N words"}
MentionsHeader(issue) ==
    issue \in {"No header structure detected", "No H1 header found",
               "Target keyword not found in any headers"}

\* SEOAnalyzer.analyze has returned on a text under 300 words with empty
\* headers, no meta description and no keyword
ShortBareText ==
    /\ Returned("seo")
    /\ report.details["content_metrics"].word_count < 300
    /\ call["headers"] = <<>>
    /\ call["meta_len"] = 0
    /\ call["target_keyword"] = ""

\* C11: for a text under 300 words with empty headers, no meta description
\* and no keyword SEOAnalyzer returns a score of at most 65 (the -20 of short
\* content and the -15 of no headers at least) and its issues hold one
\* mentioning "too short" and one mentioning "header"
C11_ShortNoHeaders ==
    ShortBareText =>
        /\ report.score <= 65
        /\ \E i \in 1..Len(report.issues) : MentionsTooShort(report.issues[i])
        /\ \E i \in 1..Len(report.issues) : MentionsHeader(report.issues[i])
        /\ report.issues[1] = "Content is too short (N words). Aim for 800-2000 words"
        /\ IsIn("No header structure detected", report.issues)

\* C11 witness: a 250-word text was analysed
C11_Witness ==
    /\ ShortBareText
    /\ report.details["content_metrics"].word_count = 250
    /\ report.score <= 65

\* the text of a basic Differentiation call holds one of the indicators,
\* whatever its case
HoldsOneOf(indicators) ==
    \E p \in call["phrases"] : \E i \in indicators : Lower(p) = i

BasicReturned ==
    Returned("diff") /\ Has(call, "phrases") /\ NoSerpData(call["serp_data"])

\* C12: without serp_data DifferentiationAnalyzer deducts 20 exactly when the
\* text holds no first-person phrase and 15 exactly when it holds no persona
\* phrase, and nothing else: a text with 'in my experience' and 'student'
\* scores 100, and the score is 100, 85, 80 or 65
C12_BasicDeductions ==
    BasicReturned =>
        /\ report.score = 100 - (IF HoldsOneOf(PersonalIndicators) THEN 0 ELSE 20)
                              - (IF HoldsOneOf(PerspectiveIndicators) THEN 0 ELSE 15)
        /\ report.score \in {100, 85, 80, 65}
        /\ IsIn("No unique examples or data points detected", report.issues)
                <=> ~HoldsOneOf(PersonalIndicators)
        /\ IsIn("Content follows generic structure", report.issues)
                <=> ~HoldsOneOf(PerspectiveIndicators)
        /\ Len(report.issues) = (100 - report.score) \div 15
        /\ {"In my experience", "Student"} \subseteq call["phrases"] => report.score = 100

\* C12 witness: a text with 'In my experience' and 'Student' scored 100
C12_Witness ==
    /\ BasicReturned
    /\ call["phrases"] = {"In my experience", "Student"}
    /\ report.score = 100
    /\ report.issues = <<>>

\* an argument of the returned call, or a filler where the call returned
\* before reading it
Arg(name, filler) == IF Has(call, name) THEN call[name] ELSE filler

\* the report that the arguments of the returned call determine
ReportOfArguments ==
    CASE call["analyzer"] = "seo" ->
            SEOAnalyze(call["word_count"], call["target_keyword"], call["count"],
                       call["flesch"], call["headers"], call["meta_len"])
      [] call["analyzer"] = "serp" ->
            SERPAnalyze(Arg("user_word_count", 0), call["target_keyword"],
                        Arg("headers", <<>>), Arg("elements", None),
                        Arg("serp_results", <<>>), Arg("contents", <<>>))
      [] call["analyzer"] = "aeo" ->
            AEOAnalyze(call["urls"], call["source_mentions"], call["structured"],
                       call["ai_patterns"], call["direct_answers"])
      [] call["analyzer"] = "hum" ->
            HUMAnalyze(call["pieces"], Arg("m", None), Arg("transition_count", 0),
                       Arg("flow", None))
      [] call["analyzer"] = "diff" ->
            DIFFAnalyze(call["serp_data"], AnalyzeBasicUniqueness(Arg("phrases", {})),
                        Arg("overlap_score", None), Arg("unique_elements", None),
                        Arg("structure_diff", None), Arg("voice", None))

EmptySEO == Returned("seo") /\ call["word_count"] = 0 /\ call["count"] = 0
EmptySERP ==
    /\ Returned("serp")
    /\ call["target_keyword"] # ""
    /\ call["user_word_count"] = 0
    /\ call["elements"] = [stats_count |-> 0, examples_count |-> 0,
                           has_comparison |-> FALSE]
EmptyAEO ==
    /\ Returned("aeo")
    /\ call["urls"] = 0
    /\ call["source_mentions"] = 0
    /\ call["structured"] = [has_faq_pattern |-> FALSE, has_lists |-> FALSE,
                             has_how_to_pattern |-> FALSE]
    /\ call["markers"] = NoMarkers
    /\ call["ai_patterns"] = [definition_count |-> 0, has_summary |-> FALSE]
    /\ call["direct_answers"] = 0
EmptyHUM == Returned("hum") /\ TextWords(call["pieces"]) = 0
EmptyDIFFBasic == BasicReturned /\ call["phrases"] = {}
EmptyDIFF ==
    /\ Returned("diff")
    /\ Has(call, "word_count")
    /\ call["word_count"] = 0
    /\ call["overlap_score"] = SimulateContentOverlap(0, 1, 0)
    /\ call["unique_elements"] = [personal_examples |-> 0, original_data |-> 0]
    /\ call["structure_diff"] = AnalyzeStructureDifference(FALSE, FALSE, None)
    /\ call["voice"] = AnalyzeVoice(0, 0, 0, 0)
EmptyText ==
    EmptySEO \/ EmptySERP \/ EmptyAEO \/ EmptyHUM \/ EmptyDIFFBasic \/ EmptyDIFF

\* C14 as stated: on a text of zero words every analyzer returns a fixed
\* default score (50) in place of the deductions of its checks
C14_ShortCircuit ==
    EmptyText => report.score = 50 /\ Len(report.issues) <= 1

\* C14 amended: on a text of zero words every analyzer returns a report,
\* each ratio with a zero denominator counting as 0; HumanizationAnalyzer
\* alone returns the fixed score 50 before its checks, the other analyzers
\* make the deductions of their checks on the empty text
C14_GuardedChecks ==
    /\ EmptyText => report.score \in 0..100
    /\ EmptyHUM =>
        /\ report.score = 50
        /\ Len(report.issues) = 1
        /\ report.details = EmptyDict
    /\ EmptySEO =>
        /\ IsIn("Content is too short (N words). Aim for 800-2000 words", report.issues)
        /\ IsIn("Content too short: N words", report.issues)
        /\ call["target_keyword"] # "" =>
                IsIn("Keyword appears only N times (D% density)", report.issues)
        /\ report.score <= 60
    /\ EmptySERP =>
        /\ IsIn("Content N% shorter than SERP average", report.issues)
        /\ Has(report.details, "ranking_prediction")
        /\ report.score <= 75
    /\ EmptyAEO => report.score = 10 /\ Len(report.issues) = 7
    /\ EmptyDIFFBasic => report.score = 65 /\ Len(report.issues) = 2
    /\ EmptyDIFF =>
        /\ report.details["content_overlap"].overlap_percentage = 10
        /\ report.score = 65

\* C14 witness: SEOAnalyzer has returned on an empty text with a keyword,
\* its score made of deductions
C14_Witness ==
    /\ EmptySEO
    /\ call["target_keyword"] = "laptop"
    /\ IsIn("Keyword appears only N times (D% density)", report.issues)
    /\ report.score < 50

\* the check of SEOAnalyzer.analyze that appends a recommendation
SEOCheckOf(recommendation) ==
    CASE recommendation \in
            {"Expand content with more details, examples, and value",
             "Add more comprehensive information (aim for 1000+ words)",
             "Consider breaking into multiple articles or adding clear navigation"} -> 0
      [] recommendation \in
            {"Increase keyword to 5-7 mentions (1.5% density)",
             "Reduce keyword usage to maintain natural flow (aim for 1-2% density)"} -> 1
      [] recommendation \in
            {"Simplify sentences and use shorter words to improve readability",
             "Consider breaking complex sentences into simpler ones"} -> 2
      [] recommendation \in
            {"Add a clear H1 header as the main title",
             "Use proper header hierarchy: H1 -> H2 -> H3",
             "Include keyword in at least one header",
             "Add clear headers (H1, H2, H3) to organize content"} -> 3
      [] recommendation \in
            {"Add meta description (150-160 characters)",
             "Expand meta description to 150-160 characters",
             "Shorten meta description to 150-160 characters"} -> 4
      [] OTHER -> 5

\* an analyze() has returned, by whichever return statement
ReturnedAny == \E name \in {"seo", "serp", "aeo", "hum", "diff"} : Returned(name)

\* C15: a report carries at most 3 recommendations: the first 3 (or fewer)
\* that the checks appended, in the order the checks ran (the two early
\* returns carry their one fixed recommendation)
C15_FirstThree ==
    /\ call["analyzer"] # "aggregate" =>
            \A r \in ReportsHeld : Len(r.recommendations) <= 3
    /\ ReturnedAny =>
        \/ report.recommendations = Take(recommendations, 3)
        \/ /\ recommendations = <<>>
           /\ report \in {HUM_TooShortReport, SERP_NoKeywordReport}
           /\ Len(report.recommendations) = 1
    /\ Returned("seo") =>
            \A i, j \in 1..Len(report.recommendations) :
                i < j => SEOCheckOf(report.recommendations[i])
                            <= SEOCheckOf(report.recommendations[j])

\* C15 witness: SEOAnalyzer collected five recommendations and returned the
\* first three
C15_Witness ==
    /\ Returned("seo")
    /\ Len(recommendations) = 5
    /\ Len(report.recommendations) = 3
    /\ report.recommendations = SubSeq(recommendations, 1, 3)

\* no competitor data in the serp_data argument: absent, empty, without a
\* serp_data entry, or with the entry None of a SERP run without a keyword
NoCompetitorData(serp_data) ==
    NoSerpData(serp_data) \/ serp_data["serp_data"] = None

\* a Differentiation report of the basic check, not of the SERP-data branch
IsBasicReport(r) ==
    /\ Has(r.details, "uniqueness")
    /\ ~Has(r.details, "content_overlap")
    /\ r.score \in {100, 85, 80, 65}

\* C16 as stated: whenever DifferentiationAnalyzer gets no competitor data
\* (serp_data absent or empty, or the details of a SERP run without a
\* keyword, as the handler passes them) it runs the basic check and not the
\* SERP-data branch
C16_BasicWithoutData ==
    /\ (Returned("diff") /\ NoCompetitorData(call["serp_data"])) =>
            IsBasicReport(report)
    /\ (call["analyzer"] = "api" /\ Has(call, "differentiation_results")
            /\ NoCompetitorData(call["serp_results"].details)) =>
            IsBasicReport(call["differentiation_results"])

\* the deduction that goes with an issue of SEOAnalyzer's keyword,
\* readability, header and meta description checks
OtherDeduction(issue) ==
    CASE issue \in {"Keyword appears only N times (D% density)",
                    "Content is very difficult to read",
                    "No header structure detected",
                    "No meta description detected"} -> 15
      [] issue \in {"Keyword density too high: D% - may look spammy",
                    "Header hierarchy is incomplete (missing H2 or H3)",
                    "Target keyword not found in any headers"} -> 10
      [] issue \in {"Content is somewhat difficult to read",
                    "Meta description too short: N characters"} -> 8
      [] issue = "No H1 header found" -> 20
      [] issue = "Meta description too long: N characters" -> 5
      [] OTHER -> 0

\* what the two content-length passes have taken off the score when all
\* checks have run
LengthDeduction == 100 - score - SumOf(issues, LAMBDA i : OtherDeduction(i))

SEOChecksDone == call["analyzer"] = "seo" /\ pc = "seo_return"

\* C17 as stated: both content-length passes use the tiers below 300 and
\* 300-599, so together they deduct 40 below 300 words, 20 for 300-599 words
\* and 0 from 600 words up
C17_SameTiers ==
    SEOChecksDone =>
        LengthDeduction = (CASE call["word_count"] < 300 -> 40
                             [] call["word_count"] \in 300..599 -> 20
                             [] OTHER -> 0)

\* C17 amended: step 0 deducts 20 below 300 words and 10 for 300-599 words
\* (above 3000 words a warning and no deduction); the second pass deducts 20
\* below 300 words and 10 for 300-799 words; together 40 below 300 words, 20
\* for 300-599, 10 for 600-799 and 0 from 800 words up
C17_SecondPassTo800 ==
    SEOChecksDone =>
        /\ LengthDeduction = (CASE call["word_count"] < 300 -> 40
                                [] call["word_count"] \in 300..599 -> 20
                                [] call["word_count"] \in 600..799 -> 10
                                [] OTHER -> 0)
        /\ IsIn("Content is too short (N words). Aim for 800-2000 words", issues)
                <=> call["word_count"] < 300
        /\ IsIn("Content is short (N words). Consider adding more depth", issues)
                <=> call["word_count"] \in 300..599
        /\ IsIn("Very long content (N words) - ensure it stays engaging", issues)
                <=> call["word_count"] > 3000
        /\ IsIn("Content too short: N words", issues) <=> call["word_count"] < 300
        /\ IsIn("Content length moderate: N words", issues)
                <=> call["word_count"] \in 300..799

\* C17 witness: on 700 words the first pass deducts nothing and the second 10
C17_Witness ==
    /\ SEOChecksDone
    /\ call["word_count"] = 700
    /\ LengthDeduction = 10
    /\ IsIn("Content length moderate: N words", issues)

\* the deduction that goes with an issue of the checks of SEOAnalyzer other
\* than the header check
NonHeaderDeduction(issue) ==
    CASE issue \in {"Content is too short (N words). Aim for 800-2000 words",
                    "Content too short: N words"} -> 20
      [] issue \in {"Content is short (N words). Consider adding more depth",
                    "Content length moderate: N words"} -> 10
      [] issue \in {"No header structure detected", "No H1 header found",
                    "Header hierarchy is incomplete (missing H2 or H3)",
                    "Target keyword not found in any headers"} -> 0
      [] OTHER -> OtherDeduction(issue)

\* what the header check has taken off the score when all checks have run
HeaderDeduction == 100 - score - SumOf(issues, LAMBDA i : NonHeaderDeduction(i))

\* a header of the given level; a header whose text holds the keyword,
\* whatever the case of either
LevelPresent(headers, level) ==
    \E i \in 1..Len(headers) : headers[i].kind = "dict" /\ headers[i].level = level
KeywordPresent(headers, keyword) ==
    \E i \in 1..Len(headers) :
        /\ headers[i].kind = "dict"
        /\ \/ Lower(headers[i].text) = Lower(keyword)
           \/ Lower(keyword) = "laptop" /\ headers[i].text = "Best Laptop Picks"

\* C18: the header check deducts a flat 15 when no headers are supplied;
\* otherwise 20 when no header has level h1, 10 when h1 and h2 are not both
\* present (else it records a positive point), and 10 when a keyword is given
\* and occurs, whatever the case, in no header text; each of these applies
\* whatever the others and whatever the other checks did
C18_HeaderDeductions ==
    SEOChecksDone =>
        LET headers == call["headers"]
            h1 == LevelPresent(headers, "h1")
            h2 == LevelPresent(headers, "h2")
            keyword == call["target_keyword"]
        IN  /\ HeaderDeduction =
                    IF headers = <<>> THEN 15
                    ELSE (IF h1 THEN 0 ELSE 20)
                         + (IF h1 /\ h2 THEN 0 ELSE 10)
                         + (IF keyword # "" /\ ~KeywordPresent(headers, keyword)
                            THEN 10 ELSE 0)
            /\ IsIn("No header structure detected", issues) <=> headers = <<>>
            /\ IsIn("No H1 header found", issues) <=> (headers # <<>> /\ ~h1)
            /\ IsIn("Header hierarchy is incomplete (missing H2 or H3)", issues)
                    <=> (headers # <<>> /\ ~(h1 /\ h2))
            /\ IsIn("Target keyword not found in any headers", issues)
                    <=> (headers # <<>> /\ keyword # ""
                            /\ ~KeywordPresent(headers, keyword))
            /\ (Has(details, "good_points")
                    /\ IsIn("Header structure present (H1, H2, H3)", details["good_points"]))
                    <=> (h1 /\ h2)

\* C18 witness: the keyword 'laptop' is found in the header 'Best Laptop
\* Picks', h1 and h2 are present, and the header check deducts nothing
C18_Witness ==
    /\ SEOChecksDone
    /\ call["target_keyword"] = "laptop"
    /\ KeywordPresent(call["headers"], "laptop")
    /\ LevelPresent(call["headers"], "h2")
    /\ HeaderDeduction = 0
    /\ score < 100

\* the prediction for score s at ratio 0.95 with full topic coverage
ImprovedPrediction(s) ==
    LET position == TierPosition(Min(s + 30, 95), 95, 100)
    IN  [current_position |-> position,
         current_page |-> CHOOSE page \in 1..5 : IsCeilingOfTenth(page, position)]

\* with_improvements of a SERP report is there exactly below 80 and is the
\* improved prediction of the report's score
WithImprovementsBelow80(r) ==
    LET prediction == r.details["ranking_prediction"]
    IN  /\ Has(prediction, "with_improvements") <=> r.score < 80
        /\ r.score < 80 => prediction["with_improvements"] = ImprovedPrediction(r.score)

\* C19: in a SERP analysis with a keyword ranking_prediction.with_improvements
\* is present exactly when the score is below 80, and is then the prediction
\* for score min(score + 30, 95) at word-count ratio 0.95 without the +5 of
\* the topic penalty
C19_WithImprovements ==
    /\ (call["analyzer"] = "serp" /\ pc = "serp_return") =>
            /\ Has(details["ranking_prediction"], "with_improvements") <=> score < 80
            /\ score < 80 =>
                    details["ranking_prediction"]["with_improvements"]
                        = ImprovedPrediction(score)
    /\ (Returned("serp") /\ call["target_keyword"] # "") =>
            WithImprovementsBelow80(report)
    /\ (call["analyzer"] = "api" /\ Has(call, "serp_results")
            /\ call["target_keyword"] # "") =>
            WithImprovementsBelow80(call["serp_results"])

\* a SERP analysis returns score 80 without with_improvements
C19_AtEighty ==
    /\ Returned("serp")
    /\ call["target_keyword"] # ""
    /\ report.score = 80
    /\ ~Has(report.details["ranking_prediction"], "with_improvements")

\* C19 witness: a SERP analysis returns score 65 with the improved
\* prediction of position 3 on page 1
C19_Witness ==
    /\ Returned("serp")
    /\ call["target_keyword"] # ""
    /\ report.score = 65
    /\ report.details["ranking_prediction"]["with_improvements"].current_position = 3

\* the list lines of a text: lines starting "- ", "1." or "2."
ListLines(markers) == markers.dash_lines + markers.one_lines + markers.two_lines

\* C20 as stated: AEOAnalyzer makes the -10 'no lists' deduction exactly
\* when the text has no bullet character and fewer than 2 numbered or dashed
\* list lines; one bullet character, or 2 dashed list lines, escape it
C20_NoListMarkers ==
    (call["analyzer"] = "aeo" /\ Has(call, "markers")) =>
        (IsIn("No bulleted or numbered lists found", issues)
            <=> (call["markers"].bullet_chars = 0 /\ ListLines(call["markers"]) < 2))

\* a Differentiation call in SERP-data mode has made its overlap check
OverlapChecked == call["analyzer"] = "diff" /\ Has(call, "overlap_score")

\* the generic phrases, sentences and words of its text, and the bonus of a
\* text under 500 words
Generic == call["overlap_score"].generic_phrases_found
Sentences == call["sentence_count"]
Bonus == IF call["word_count"] < 500 THEN 10 ELSE 0

\* min(generic / sentences x 100, 90) + bonus, as a fraction, exceeds t
\* (t at most 70, so the cap at 95 does not matter)
ExactOverlapExceeds(t) == 100 * Generic > (t - Bonus) * Sentences

\* the deduction of the overlap check, from its issues
OverlapDeduction ==
    (IF IsIn("N% content overlap with top 3 SERP results", issues) THEN 30 ELSE 0)
    + (IF IsIn("N% content overlap with competitors", issues) THEN 20 ELSE 0)

\* C21 as stated: the overlap percentage is min(generic / sentences x 100,
\* 90), plus 10 under 500 words, capped at 95; the analyzer deducts 30 when
\* it exceeds 70, otherwise 20 when it exceeds 50, otherwise nothing
C21_ExactOverlap ==
    OverlapChecked =>
        /\ details["content_overlap"].overlap_percentage \in 0..95
        /\ OverlapDeduction = (IF ExactOverlapExceeds(70) THEN 30
                               ELSE IF ExactOverlapExceeds(50) THEN 20 ELSE 0)

\* C21 amended: the overlap percentage is min(generic / sentences x 100
\* rounded down to an integer, 90), plus 10 under 500 words, capped at 95, so
\* it lies in 0..95; the analyzer deducts 30 when it exceeds 70, otherwise 20
\* when it exceeds 50, otherwise nothing, never both
C21_TruncatedOverlap ==
    OverlapChecked =>
        LET percentage == details["content_overlap"].overlap_percentage
        IN  /\ percentage \in 0..95
            /\ \E whole \in 0..1200 :
                /\ whole * Sentences <= 100 * Generic
                /\ 100 * Generic < (whole + 1) * Sentences
                /\ percentage = Min(Min(whole, 90) + Bonus, 95)
            /\ OverlapDeduction = (IF percentage > 70 THEN 30
                                   ELSE IF percentage > 50 THEN 20 ELSE 0)
            /\ pc = "diff_unique" => score = 100 - OverlapDeduction
            /\ percentage > 70 =>
                    /\ IsIn("No unique examples or data", issues)
                    /\ ~IsIn("N% content overlap with competitors", issues)

\* C21 witness: 12 generic phrases in 17 sentences of a text of 500 words or
\* more are 70%, not above 70: the deduction is 20
C21_Witness ==
    /\ OverlapChecked
    /\ pc = "diff_unique"
    /\ Generic = 12
    /\ Sentences = 17
    /\ Bonus = 0
    /\ details["content_overlap"].overlap_percentage = 70
    /\ score = 80

\* a Differentiation call in SERP-data mode has just made its unique-elements
\* check
UniqueChecked ==
    /\ call["analyzer"] = "diff"
    /\ pc = "diff_structure"
    /\ Has(call, "unique_elements")

\* C22: in SERP-data mode the unique-elements check deducts 15 when the
\* personal-example count is 0 and, independently, 10 when the original-data
\* count is 0; with both counts 0 the 10 is still deducted and only the
\* original-data issue and recommendation are left out
C22_UniqueElements ==
    UniqueChecked =>
        LET personal == call["unique_elements"].personal_examples
            original == call["unique_elements"].original_data
            told == original = 0 /\ personal > 0
        IN  /\ score = 100 - OverlapDeduction
                           - (IF personal = 0 THEN 15 ELSE 0)
                           - (IF original = 0 THEN 10 ELSE 0)
            /\ IsIn("No original data or research", issues) <=> told
            /\ IsIn("Include original data, surveys, or experiments",
                    recommendations) <=> told
            /\ personal = 0 => issues[Len(issues)] = "No unique examples or data"

\* C22 witness: both counts are 0, 25 is deducted and the original-data issue
\* is not reported
C22_Witness ==
    /\ UniqueChecked
    /\ call["unique_elements"].personal_examples = 0
    /\ call["unique_elements"].original_data = 0
    /\ score = 100 - OverlapDeduction - 25
    /\ ~IsIn("No original data or research", issues)

\* a Humanization call has just made its AI-pattern check
AIPatternsChecked ==
    /\ call["analyzer"] = "hum"
    /\ pc = "hum_transitions"
    /\ Has(call, "m")

\* the five markers of the text of the call
MarkerDelve == call["m"].has_delve
MarkerFormulaic == call["m"].formulaic_count >= 3
MarkerAdverbs ==
    call["m"].adverb_count * 100 > 2 * TextWords(call["pieces"])
MarkerGrammar ==
    /\ ~call["m"].has_fragments
    /\ ~call["m"].has_informal
    /\ Len(call["sentences"]) > 10
MarkerLowDiversity ==
    LET patterns == SentencePatterns(call["sentences"])
    IN  10 * Cardinality({patterns[i] : i \in 1..Len(patterns)}) < 6 * Len(patterns)

\* the sum of the weights of the markers present
MarkerWeights ==
    (IF MarkerDelve THEN 15 ELSE 0) + (IF MarkerFormulaic THEN 20 ELSE 0)
    + (IF MarkerAdverbs THEN 15 ELSE 0) + (IF MarkerGrammar THEN 10 ELSE 0)
    + (IF MarkerLowDiversity THEN 15 ELSE 0)

\* C23: the AI-pattern composite is the sum of the weights of the markers
\* present (delve 15, 3 or more formulaic phrases 20, adverb rate above 2% 15,
\* too-perfect grammar with more than 10 sentences 10, low pattern diversity
\* 15), capped at 100; the analyzer deducts 25 when it exceeds 60, otherwise
\* 15 when it exceeds 40, and the 25 needs delve, formulaic phrases, adverbs
\* and low diversity together
C23_AIComposite ==
    AIPatternsChecked =>
        LET composite == details["ai_patterns"].ai_score
            before == HUM_Lengths(HUM_Starters(NewFrame, call["sentences"]),
                                  call["sentences"]).score
            high == IsIn("High AI pattern score: N%", issues)
            moderate == IsIn("Moderate AI patterns detected: N%", issues)
        IN  /\ composite = Min(MarkerWeights, 100)
            /\ high <=> composite > 60
            /\ moderate <=> composite > 40 /\ composite <= 60
            /\ score = before - (IF high THEN 25 ELSE IF moderate THEN 15 ELSE 0)
            /\ high => /\ MarkerDelve
                       /\ MarkerFormulaic
                       /\ MarkerAdverbs
                       /\ MarkerLowDiversity

\* C23 witness: the four markers without the grammar marker give 65 and the
\* deduction of 25
C23_Witness ==
    /\ AIPatternsChecked
    /\ MarkerDelve
    /\ MarkerFormulaic
    /\ MarkerAdverbs
    /\ MarkerLowDiversity
    /\ ~MarkerGrammar
    /\ details["ai_patterns"].ai_score = 65
    /\ IsIn("High AI pattern score: N%", issues)

Analyzers == {"seo", "serp", "aeo", "hum", "diff"}

\* an analyze() call of one of the five analyzers is between two checks
InAnalysis == call["analyzer"] \in Analyzers /\ pc # "idle"

\* s is t or t with entries appended at the end
GrownFrom(s, t) == Len(t) <= Len(s) /\ SubSeq(s, 1, Len(t)) = t

\* C24: during one analysis call the running score starts at 100 and never
\* increases from one check to the next, issues and recommendations only grow
\* by appending at the end, and the issues of the report are the issues in the
\* order the checks detected them (the floor of the return lifts a negative
\* score to 0; an early return carries its one fixed issue)
C24_AppendOnly ==
    [][/\ (pc = "idle" /\ InAnalysis') =>
            /\ score' = 100
            /\ issues' = <<>>
            /\ recommendations' = <<>>
       /\ InAnalysis =>
            /\ score' <= score \/ (pc' = "idle" /\ score < 0 /\ score' = 0)
            /\ GrownFrom(issues', issues)
            /\ GrownFrom(recommendations', recommendations)
       /\ (InAnalysis /\ pc' = "idle") =>
            \/ report'.issues = issues'
            \/ issues' = <<>> /\ Len(report'.issues) = 1]_vars

\* C24 witness: a call has returned three or more issues after its deductions,
\* in the order of its checks
C24_Witness ==
    /\ ReturnedAny
    /\ Len(issues) >= 3
    /\ report.issues = issues
    /\ score < 100
    /\ Len(recommendations) >= 2

\* the with_improvements position of a ranking prediction is better than its
\* current position
ImprovesPosition(prediction) ==
    Has(prediction, "with_improvements") =>
        prediction["with_improvements"].current_position
            < prediction.current_position

\* C25: whenever a SERP report carries a with_improvements prediction, its
\* position is strictly smaller than the report's current_position
C25_StrictlyBetter ==
    /\ (call["analyzer"] = "serp" /\ pc = "serp_return") =>
            ImprovesPosition(details["ranking_prediction"])
    /\ (Returned("serp") /\ call["target_keyword"] # "") =>
            ImprovesPosition(report.details["ranking_prediction"])
    /\ (call["analyzer"] = "api" /\ Has(call, "serp_results")
            /\ call["target_keyword"] # "") =>
            ImprovesPosition(call["serp_results"].details["ranking_prediction"])

\* C25 witness: at the lowest SERP score, 15, the current position is 40 and
\* the position with improvements is 22
C25_Witness ==
    /\ Returned("serp")
    /\ report.score = 15
    /\ report.details["ranking_prediction"].current_position = 40
    /\ report.details["ranking_prediction"]["with_improvements"].current_position = 22

\* C26: in every aggregate report improved_estimated_rank is at least 3 and
\* never larger than current_estimated_rank, so the improvement (current -
\* improved) is never negative
C26_NeverWorse ==
    Answered =>
        /\ ImprovedEstimate >= 3
        /\ ImprovedEstimate <= CurrentEstimate
        /\ response.rank_prediction.improvement = CurrentEstimate - ImprovedEstimate
        /\ response.rank_prediction.improvement >= 0

\* C26 witness: the best current rank, 3, stays 3 with improvement 0
C26_Witness ==
    /\ Answered
    /\ CurrentEstimate = 3
    /\ ImprovedEstimate = 3
    /\ response.rank_prediction.improvement = 0

\* a Differentiation call in SERP-data mode has returned
SerpModeReturned ==
    /\ Returned("diff")
    /\ ~NoSerpData(call["serp_data"])
    /\ Has(call, "voice")

\* the report of a call on the text of the returned call with the competitor
\* aggregate other
ReportOnAggregate(other) ==
    DIFFAnalyze(other, AnalyzeBasicUniqueness({}), call["overlap_score"],
                call["unique_elements"],
                AnalyzeStructureDifference(call["structure_text"].has_generic_start,
                                           call["structure_text"].has_unique_format,
                                           other["serp_data"]),
                call["voice"])

\* C27: in SERP-data mode the report of the Differentiation analyzer depends
\* on the text only: the same text with any other competitor aggregate that
\* carries a serp_data entry gives the identical report
C27_TextOnly ==
    SerpModeReturned =>
        \A other \in SerpArguments :
            ~NoSerpData(other) => report = ReportOnAggregate(other)

\* C27 witness: a call on scraped competitor data has returned with
\* deductions, and there is a different aggregate without competitor data
C27_Witness ==
    /\ SerpModeReturned
    /\ call["serp_data"]["serp_data"] # None
    /\ report.score < 100
    /\ \E other \in SerpArguments :
            /\ ~NoSerpData(other)
            /\ other["serp_data"] = None

\* a SERP call has made its prediction from the running score
Predicted ==
    /\ call["analyzer"] = "serp"
    /\ pc = "serp_improve"
    /\ Has(details, "ranking_prediction")

\* the word-count ratio of the call as a fraction, and the topic counts
RatioNum ==
    IF details["word_count_comparison"].serp_avg > 0
    THEN details["word_count_comparison"].user ELSE 0
RatioDen ==
    IF details["word_count_comparison"].serp_avg > 0
    THEN details["word_count_comparison"].serp_avg ELSE 1

\* the prediction for score s and word count num of the same call
PredictionAt(s, num) ==
    PredictRanking(s, num, RatioDen, details["topic_coverage"].user,
                   details["topic_coverage"].serp_avg)

\* word counts around the ratios 0.8 and 0.9 and beyond
RatioNums ==
    SERPWordCounts
    \cup {(8 * RatioDen) \div 10, (8 * RatioDen) \div 10 + 1,
          (9 * RatioDen) \div 10, (9 * RatioDen) \div 10 + 1, 2 * RatioDen}

\* p is no worse than q in position and page
NoWorse(p, q) ==
    /\ p.current_position <= q.current_position
    /\ p.current_page <= q.current_page

\* C28: rank prediction is monotone: with the topic counts fixed, a higher
\* score at the same ratio, or a higher word-count ratio at the same score,
\* never gives a larger position or page
C28_Monotone ==
    Predicted =>
        LET prediction == details["ranking_prediction"]
        IN  /\ prediction = PredictionAt(score, RatioNum)
            /\ \A higher \in score..100 :
                    NoWorse(PredictionAt(higher, RatioNum), prediction)
            /\ \A lower \in 0..score :
                    NoWorse(prediction, PredictionAt(lower, RatioNum))
            /\ \A num \in RatioNums :
                    /\ num >= RatioNum => NoWorse(PredictionAt(score, num), prediction)
                    /\ num <= RatioNum => NoWorse(prediction, PredictionAt(score, num))

\* C28 witness: a call predicted position 10 at a score of 75 or more with a
\* ratio under 0.8, and more words at the same score give position 6
C28_Witness ==
    /\ Predicted
    /\ score >= 75
    /\ 10 * RatioNum < 8 * RatioDen
    /\ details["ranking_prediction"].current_position \in {10, 15}
    /\ \E more \in RatioNums :
            /\ more > RatioNum
            /\ PredictionAt(score, more).current_position
                    < details["ranking_prediction"].current_position

\* the least score of a run of analyzer name: 100 minus the most its
\* penalties can total
LeastScore(name, basic) ==
    CASE name = "serp" -> 100 - 85
      [] name = "aeo" -> 100 - 90
      [] name = "hum" -> 100 - 90
      [] name = "diff" /\ ~basic -> 100 - 80
      [] name = "diff" /\ basic -> 100 - 35

\* the returned call of the Differentiation analyzer took the basic branch
TookBasic == call["analyzer"] = "diff" /\ Has(call, "phrases")

\* C29: outside SEOAnalyzer the floor at 0 never takes effect: the penalties
\* of one run total at most 85 in SERPAnalyzer, 90 in AEOAnalyzer, 90 in
\* HumanizationAnalyzer, 80 in DifferentiationAnalyzer with SERP data and 35
\* in its basic mode, so the running and the returned scores are at least 15,
\* 10, 10, 20 and 65
C29_FloorOnlySEO ==
    /\ \A name \in {"serp", "aeo", "hum", "diff"} :
          /\ (call["analyzer"] = name /\ pc # "idle") =>
                score >= LeastScore(name, FALSE)
          /\ Returned(name) =>
                /\ report.score >= LeastScore(name, TookBasic)
                /\ call["analyzer"] = "diff" => report.score = score
    /\ (Answered /\ call["analyzer"] = "api") =>
          /\ response.scores[2].score >= LeastScore("serp", FALSE)
          /\ response.scores[3].score >= LeastScore("aeo", FALSE)
          /\ response.scores[4].score >= LeastScore("hum", FALSE)
          /\ response.scores[5].score >= LeastScore("diff", FALSE)

\* C29 witness: the checks of SEOAnalyzer have deducted more than 100 and the
\* floor is about to lift the score to 0
C29_Witness ==
    /\ call["analyzer"] = "seo"
    /\ pc = "seo_return"
    /\ score < 0

\* the least scores are reached
C29_SERPLeast == Returned("serp") /\ report.score = 15
C29_AEOLeast == Returned("aeo") /\ report.score = 10
C29_HUMLeast == Returned("hum") /\ report.score = 10
C29_DIFFLeast == Returned("diff") /\ ~TookBasic /\ report.score = 20
C29_BasicLeast == Returned("diff") /\ TookBasic /\ report.score = 65

\* the entries of s are pairwise distinct
Distinct(s) == \A i, j \in 1..Len(s) : s[i] = s[j] => i = j

\* C30: no analyzer report lists the same recommendation twice: the
\* recommendations of every report an analyzer returns are pairwise distinct
C30_DistinctRecommendations ==
    call["analyzer"] \in Analyzers \cup {"api"} =>
        \A r \in ReportsHeld : Distinct(r.recommendations)
============================================================================
